---- MODULE Spec2Model ----
(***************************************************************************)
(* Write-buffered persistence tier of backend-memecoin.                    *)
(*                                                                         *)
(* The repository holds several variants of one server.  Each variant is   *)
(* a program of its own; the variable `variant` says which one runs:       *)
(*   "pc"  per-collection files, isSaving guard      (src/unnamed/part_002)*)
(*   "sb"  single blob, isSaving guard, refreshSha   (src/unnamed/part_001)*)
(*   "lg"  single blob, no guard, reload on conflict (src/server.js 1-143) *)
(*   "gi"  single Gist, no guard                     (src/unnamed/part_003)*)
(*                                                                         *)
(* An asynchronous function is modelled by its activations: a timer firing *)
(* runs the function up to its first await and leaves an activation in     *)
(* `flights`; the answer of the store runs it up to the next await.        *)
(***************************************************************************)
EXTENDS Integers, Sequences, FiniteSets, TLC

VARIABLES
    variant,      \* which variant of the server is running
    collections,  \* pc: key -> [data, sha, dirty]
    memoryDb,     \* sb, lg, gi: [users, tokens, transfers, chat]
    fileSha,      \* sb, lg: version token of database.json (0 is null)
    gistId,       \* gi: id of the Gist (0 is null)
    isDirty,      \* sb, lg, gi
    isSaving,     \* pc, sb
    store,        \* the remote repository: path -> [sha, content]
    gists,        \* the remote Gists: sequence of contents, id = index
    loadLog,      \* pc, sb, lg: what the load sequence has logged for each GET
    flights,      \* activations of the flush routine awaiting the store
    nStream,      \* POST /api/stream requests handled so far
    nExternal,    \* writes by other writers of the repository so far
    lastConflict, \* pc, sb: how the last conflict of each blob was handled
    shutdown      \* sb: where emergencySave stands: "none", "await", "exited"

vars == <<variant, collections, memoryDb, fileSha, gistId, isDirty, isSaving,
          store, gists, loadLog, flights, nStream, nExternal, lastConflict,
          shutdown>>

-----------------------------------------------------------------------------
(* Bounds of the model.                                                    *)

MaxStream == 2
MaxExternal == 1
MaxFlights == 2

-----------------------------------------------------------------------------
(* JSON values.  Objects and arrays are tagged so that {} and [] differ;   *)
(* numbers are tagged so that any two values can be compared.              *)

Obj(f) == [obj |-> f]
Arr(s) == [arr |-> s]
Num(n) == [num |-> n]
Undefined == [undef |-> TRUE]
EmptyMap == [k \in {} |-> Undefined]

\* obj[k] of JavaScript: undefined when the key is missing.
Get(f, k) == IF k \in DOMAIN f THEN f[k] ELSE Undefined

\* JavaScript truthiness of the values used here: undefined and 0 are falsy,
\* every object and every array (the empty ones too) is truthy.
Truthy(v) == v # Undefined /\ v # Num(0)

\* f with f[k] = v, the key added when it is missing.
Put(f, k, v) == [x \in DOMAIN f \cup {k} |-> IF x = k THEN v ELSE f[x]]

\* A user record keeps the order of its keys, which JSON.stringify shows:
\* it is a sequence of <<key, value>> pairs with distinct keys.
RecKeys(r) == {r[i][1] : i \in 1..Len(r)}
RecGet(r, k) == (CHOOSE i \in 1..Len(r) : r[i][1] = k)

\* { ...a, ...b }: the keys of a in their order, with the values b gives
\* them, then the keys only b has, in b's order.
Spread(a, b) ==
    LET over == [i \in 1..Len(a) |->
                    IF a[i][1] \in RecKeys(b)
                    THEN <<a[i][1], b[RecGet(b, a[i][1])][2]>>
                    ELSE a[i]]
        IsNew(p) == p[1] \notin RecKeys(a)
    IN  over \o SelectSeq(b, IsNew)

\* JSON.stringify drops the members of a token whose value is undefined.
StripToken(t) == [f \in {g \in DOMAIN t : t[g] # Undefined} |-> t[f]]
StripTokens(v) == Obj([tid \in DOMAIN v.obj |-> StripToken(v.obj[tid])])

\* Buffer.from(JSON.stringify(col.data, null, 2)).toString('base64'): the text
\* stored for the value of collection `key`.
Stringify(key, v) == [json |-> IF key = "tokens" THEN StripTokens(v) ELSE v]

\* The text of a blob that is not JSON.
Garbage == [garbage |-> TRUE]

\* JSON.parse(Buffer.from(data.content, 'base64').toString('utf-8')) throws
\* on a text that is not JSON.
CanParse(text) == "json" \in DOMAIN text
Parse(text) == text.json

Remove(s, j) == [i \in 1..(Len(s) - 1) |-> IF i < j THEN s[i] ELSE s[i + 1]]

-----------------------------------------------------------------------------
(* The per-collection variant: memory.                                     *)

\* Object.keys(collections), in the order of the literal.
Keys == <<"users", "tokens", "bots", "transfers">>
KeySet == {Keys[i] : i \in 1..Len(Keys)}

Path(key) ==
    CASE key = "users" -> "data/users.json"
      [] key = "tokens" -> "data/tokens.json"
      [] key = "bots" -> "data/bots.json"
      [] key = "transfers" -> "data/transfers.json"

DB_PATH == "database.json"
Paths == {Path(k) : k \in KeySet} \cup {DB_PATH}

\* (key === 'bots' || key === 'transfers') ? [] : {}
EmptyDefault(key) ==
    IF key = "bots" \/ key = "transfers" THEN Arr(<<>>) ELSE Obj(EmptyMap)

InitCollections ==
    [key \in KeySet |-> [data |-> EmptyDefault(key), sha |-> 0, dirty |-> FALSE]]

-----------------------------------------------------------------------------
(* The remote repository (GitHub contents API), as the versioned blob      *)
(* store the code relies on: a blob has a version token (sha) and a text;  *)
(* sha 0 says that the blob does not exist.                                *)

NoBlob == [sha |-> 0, content |-> [none |-> TRUE]]

BlobExists(path) == store[path].sha # 0

\* PUT with the token the store holds (null for a blob that does not exist)
\* is accepted.
PutAccepted(path, sha) == store[path].sha = sha

\* PUT with a token that is not the blob's current one: status 409.
PutConflicts(path, sha) ==
    /\ BlobExists(path)
    /\ sha # 0
    /\ sha # store[path].sha

\* The store after an accepted PUT: a new token and the text sent.
StoreAfterPut(path, content) ==
    [store EXCEPT ![path] = [sha |-> @.sha + 1, content |-> content]]

\* The name under which loadLog and lastConflict know a blob.
BlobName(path) ==
    IF path = DB_PATH THEN "db" ELSE CHOOSE k \in KeySet : Path(k) = path

\* The blobs the running variant reads and writes.
VariantPaths ==
    IF variant = "pc" THEN {Path(k) : k \in KeySet}
    ELSE IF variant \in {"sb", "lg"} THEN {DB_PATH}
    ELSE {}

\* Another writer of the repository commits the blob again: its token
\* changes, and our next PUT with the old token conflicts.
ExternalWrite(path) ==
    /\ nExternal < MaxExternal
    /\ path \in VariantPaths
    /\ BlobExists(path)
    /\ store' = [store EXCEPT ![path].sha = @ + 1]
    /\ nExternal' = nExternal + 1
    /\ lastConflict' = [lastConflict EXCEPT ![BlobName(path)] =
                            IF @ = "refreshed" THEN "conflict" ELSE @]
    /\ UNCHANGED <<variant, shutdown, collections, memoryDb, fileSha, gistId, isDirty,
                   isSaving, gists, loadLog, flights, nStream>>

-----------------------------------------------------------------------------
(* The per-collection variant: initStorage.  app.listen's callback calls   *)
(* it without awaiting it: the four GETs are pending while the server      *)
(* already answers requests and the save timer already fires.              *)

\* The GET of `key` is answered with the blob and its text parses.
initStorageFound(key) ==
    /\ variant = "pc"
    /\ loadLog[key] = "pending"
    /\ BlobExists(Path(key))
    /\ CanParse(store[Path(key)].content)
    /\ collections' = [collections EXCEPT
                          ![key].sha = store[Path(key)].sha,
                          ![key].data = Parse(store[Path(key)].content)]
    /\ loadLog' = [loadLog EXCEPT ![key] = "found"]
    /\ UNCHANGED <<variant, shutdown, memoryDb, fileSha, gistId, isDirty, isSaving,
                   store, gists, flights, nStream, nExternal, lastConflict>>

\* A corrupt branch that resets every collection.
initStorageCorruptAll(key) ==
    /\ variant = "pc"
    /\ loadLog[key] = "pending"
    /\ BlobExists(Path(key))
    /\ ~CanParse(store[Path(key)].content)
    /\ collections' = [k \in KeySet |->
                          [data |-> EmptyDefault(k),
                           sha |-> IF k = key THEN store[Path(key)].sha
                                   ELSE collections[k].sha,
                           dirty |-> TRUE]]
    /\ loadLog' = [loadLog EXCEPT ![key] = "corrupt"]
    /\ UNCHANGED <<variant, shutdown, memoryDb, fileSha, gistId, isDirty, isSaving,
                   store, gists, flights, nStream, nExternal, lastConflict>>

\* The GET is answered with a blob whose text does not parse.
initStorageCorrupt(key) ==
    /\ variant = "pc"
    /\ loadLog[key] = "pending"
    /\ BlobExists(Path(key))
    /\ ~CanParse(store[Path(key)].content)
    /\ collections' = [collections EXCEPT
                          ![key].sha = store[Path(key)].sha,
                          ![key].data = EmptyDefault(key),
                          ![key].dirty = TRUE]
    /\ loadLog' = [loadLog EXCEPT ![key] = "corrupt"]
    /\ UNCHANGED <<variant, shutdown, memoryDb, fileSha, gistId, isDirty, isSaving,
                   store, gists, flights, nStream, nExternal, lastConflict>>

\* A 404 branch that does not mark the collection.
initStorageMissingClean(key) ==
    /\ variant = "pc"
    /\ loadLog[key] = "pending"
    /\ ~BlobExists(Path(key))
    /\ collections' = [collections EXCEPT ![key].data = EmptyDefault(key)]
    /\ loadLog' = [loadLog EXCEPT ![key] = "missing"]
    /\ UNCHANGED <<variant, shutdown, memoryDb, fileSha, gistId, isDirty, isSaving,
                   store, gists, flights, nStream, nExternal, lastConflict>>

\* The GET is answered with status 404.
initStorageMissing(key) ==
    /\ variant = "pc"
    /\ loadLog[key] = "pending"
    /\ ~BlobExists(Path(key))
    /\ collections' = [collections EXCEPT
                          ![key].dirty = TRUE,
                          ![key].data = EmptyDefault(key)]
    /\ loadLog' = [loadLog EXCEPT ![key] = "missing"]
    /\ UNCHANGED <<variant, shutdown, memoryDb, fileSha, gistId, isDirty, isSaving,
                   store, gists, flights, nStream, nExternal, lastConflict>>

\* An error branch that resets the collection as the 404 branch does.
initStorageErrorResets(key) ==
    /\ variant = "pc"
    /\ loadLog[key] = "pending"
    /\ collections' = [collections EXCEPT
                          ![key].dirty = TRUE,
                          ![key].data = EmptyDefault(key)]
    /\ loadLog' = [loadLog EXCEPT ![key] = "error"]
    /\ UNCHANGED <<variant, shutdown, memoryDb, fileSha, gistId, isDirty, isSaving,
                   store, gists, flights, nStream, nExternal, lastConflict>>

\* The GET fails with another status (network, authentication): logged only.
initStorageError(key) ==
    /\ variant = "pc"
    /\ loadLog[key] = "pending"
    /\ loadLog' = [loadLog EXCEPT ![key] = "error"]
    /\ UNCHANGED <<variant, shutdown, collections, memoryDb, fileSha, gistId, isDirty,
                   isSaving, store, gists, flights, nStream, nExternal, lastConflict>>

-----------------------------------------------------------------------------
(* The per-collection variant: saveLoop.                                   *)

\* A saveLoop that lacks the guard.
saveLoopUnguarded == FALSE

\* if (isSaving) return;
saveLoopBusy == isSaving

\* A filter that keeps every key.
dirtyKeysAll == Keys

\* Object.keys(collections).filter(k => collections[k].dirty)
dirtyKeys ==
    LET IsDirtyKey(k) == collections[k].dirty
    IN  SelectSeq(Keys, IsDirtyKey)

\* One iteration of `for (const key of dirtyKeys)` up to its await: the text
\* of col.data and col.sha as they are now go into the PUT request.
saveLoopPut(cols, f, i) ==
    [f EXCEPT !.pc = "put",
              !.i = i,
              !.content = Stringify(f.dirtyKeys[i], cols[f.dirtyKeys[i]].data),
              !.sha = cols[f.dirtyKeys[i]].sha,
              !.tried = @ \cup {f.dirtyKeys[i]}]

\* setInterval(saveLoop, 0): the timer fires.
saveLoop ==
    /\ variant = "pc"
    /\ IF saveLoopBusy \/ dirtyKeys = <<>>
       THEN UNCHANGED vars
       ELSE /\ Len(flights) < MaxFlights
            /\ isSaving' = TRUE
            /\ flights' = Append(flights,
                   saveLoopPut(collections,
                       [fn |-> "saveLoop", pc |-> "put", dirtyKeys |-> dirtyKeys,
                        i |-> 1, content |-> Garbage, sha |-> 0, tried |-> {}],
                       1))
            /\ UNCHANGED <<variant, shutdown, collections, memoryDb, fileSha, gistId,
                           isDirty, store, gists, loadLog, nStream, nExternal, lastConflict>>

\* A loop that ends without `isSaving = false`.
saveLoopNextHolds(cols, j) ==
    LET f == flights[j]
    IN  IF f.i < Len(f.dirtyKeys)
        THEN /\ flights' = [flights EXCEPT ![j] = saveLoopPut(cols, f, f.i + 1)]
             /\ isSaving' = isSaving
        ELSE /\ flights' = Remove(flights, j)
             /\ isSaving' = isSaving

\* The rest of the loop after the iteration of flights[j] is over: the next
\* key's PUT, or `isSaving = false` after the last key.  `cols` is the value
\* of collections that the iteration leaves.
saveLoopNext(cols, j) ==
    LET f == flights[j]
    IN  IF f.i < Len(f.dirtyKeys)
        THEN /\ flights' = [flights EXCEPT ![j] = saveLoopPut(cols, f, f.i + 1)]
             /\ isSaving' = isSaving
        ELSE /\ flights' = Remove(flights, j)
             /\ isSaving' = FALSE

\* A successful PUT that leaves the collection without a token.
saveLoopStoredNull(col, sha) == [col EXCEPT !.sha = 0, !.dirty = FALSE]

\* What a successful PUT leaves in the collection: the new token, dirty false.
saveLoopStored(col, sha) == [col EXCEPT !.sha = sha, !.dirty = FALSE]

\* The PUT of flights[j] is accepted.
saveLoopPutOk(j) ==
    /\ variant = "pc"
    /\ j \in 1..Len(flights)
    /\ flights[j].pc = "put"
    /\ LET f == flights[j]
           key == f.dirtyKeys[f.i]
           cols == [collections EXCEPT
                       ![key] = saveLoopStored(@, store[Path(key)].sha + 1)]
       IN  /\ PutAccepted(Path(key), f.sha)
           /\ store' = StoreAfterPut(Path(key), f.content)
           /\ collections' = cols
           /\ lastConflict' = [lastConflict EXCEPT ![key] = "none"]
           /\ saveLoopNext(cols, j)
    /\ UNCHANGED <<variant, shutdown, memoryDb, fileSha, gistId, isDirty, gists,
                   loadLog, nStream, nExternal>>

\* The PUT is answered with status 409: the catch block asks for the blob
\* again, to take its token.
saveLoopPutConflict(j) ==
    /\ variant = "pc"
    /\ j \in 1..Len(flights)
    /\ flights[j].pc = "put"
    /\ PutConflicts(Path(flights[j].dirtyKeys[flights[j].i]), flights[j].sha)
    /\ flights' = [flights EXCEPT ![j].pc = "get", ![j].content = Garbage,
                                  ![j].sha = 0]
    /\ lastConflict' = [lastConflict EXCEPT
                            ![flights[j].dirtyKeys[flights[j].i]] = "conflict"]
    /\ UNCHANGED <<variant, shutdown, collections, memoryDb, fileSha, gistId, isDirty,
                   isSaving, store, gists, loadLog, nStream, nExternal>>

\* A catch block that gives the collection up: it clears the dirty flag.
saveLoopCaughtGivesUp(j) ==
    LET cols == [collections EXCEPT
                    ![flights[j].dirtyKeys[flights[j].i]].dirty = FALSE]
    IN  /\ collections' = cols
        /\ saveLoopNext(cols, j)

\* A catch block outside the loop: an error ends the cycle.
saveLoopCaughtOutside(j) ==
    /\ collections' = collections
    /\ flights' = Remove(flights, j)
    /\ isSaving' = FALSE

\* The catch block when the error is not a conflict, or when the GET after
\* a conflict fails: nothing is changed and the loop goes on.
saveLoopCaught(j) ==
    /\ collections' = collections
    /\ saveLoopNext(collections, j)

\* The PUT fails with another error (network, authentication, 422 for a
\* missing token): the catch block only logs it.
saveLoopPutError(j) ==
    /\ variant = "pc"
    /\ j \in 1..Len(flights)
    /\ flights[j].pc = "put"
    /\ saveLoopCaught(j)
    /\ UNCHANGED <<variant, shutdown, memoryDb, fileSha, gistId, isDirty,
                   store, gists, loadLog, nStream, nExternal, lastConflict>>

\* A refresh that leaves the old token.
saveLoopRefreshedStale(col, sha) == col

\* A refresh that takes the token and also clears the dirty flag.
saveLoopRefreshedClean(col, sha) == [col EXCEPT !.sha = sha, !.dirty = FALSE]

\* The token a successful GET after a conflict leaves in the collection.
saveLoopRefreshed(col, sha) == [col EXCEPT !.sha = sha]

\* The GET after a conflict is answered: col.sha = data.sha.
saveLoopRefreshOk(j) ==
    /\ variant = "pc"
    /\ j \in 1..Len(flights)
    /\ flights[j].pc = "get"
    /\ LET f == flights[j]
           key == f.dirtyKeys[f.i]
           cols == [collections EXCEPT
                       ![key] = saveLoopRefreshed(@, store[Path(key)].sha)]
       IN  /\ BlobExists(Path(key))
           /\ collections' = cols
           /\ lastConflict' = [lastConflict EXCEPT ![key] = "refreshed"]
           /\ saveLoopNext(cols, j)
    /\ UNCHANGED <<variant, shutdown, memoryDb, fileSha, gistId, isDirty, store, gists,
                   loadLog, nStream, nExternal>>

\* The GET after a conflict fails: catch(e) {}.
saveLoopRefreshError(j) ==
    /\ variant = "pc"
    /\ j \in 1..Len(flights)
    /\ flights[j].pc = "get"
    /\ saveLoopCaught(j)
    /\ UNCHANGED <<variant, shutdown, memoryDb, fileSha, gistId, isDirty,
                   store, gists, loadLog, nStream, nExternal, lastConflict>>

-----------------------------------------------------------------------------
(* The per-collection variant: POST /api/stream.  A request body is a      *)
(* record that may have the member `data`; data may have the members       *)
(* users, tokens, bots, transfers.  A state of the merge of one collection *)
(* is [data, dirty].                                                       *)

\* if (!ext || JSON.stringify(ext) !== JSON.stringify(inc))
userDiffers(users, inc, u) == u \notin DOMAIN users \/ users[u] # inc[u]

\* A users merge that stores nothing.
mergeUsersDropped(st, inc) == st

\* data.users: each differing user becomes { ...(ext || {}), ...inc }.
mergeUsers(st, inc) ==
    LET users == st.data.obj
        changed == {u \in DOMAIN inc.obj : userDiffers(users, inc.obj, u)}
    IN  [data |-> Obj([u \in DOMAIN users \cup changed |->
                          IF u \in changed
                          THEN Spread(IF u \in DOMAIN users THEN users[u] ELSE <<>>,
                                      inc.obj[u])
                          ELSE users[u]]),
         dirty |-> st.dirty \/ changed # {}]

\* The members of a token that every update overwrites, and those that are
\* overwritten only when the update has them.
TokenScalars == {"marketCap", "price", "liquidityDepth", "conviction", "quality"}
TokenHeavy == {"holders", "chartData", "topTrades", "rektTrades"}

\* A token merge that ignores the update.
mergeTokenKept(ext, inc) == ext

\* A token merge that stores the old marketCap as the price.
mergeTokenShifted(ext, inc) ==
    [f \in DOMAIN ext \cup TokenScalars |->
        IF f = "price" THEN Get(ext, "marketCap")
        ELSE IF f \in TokenScalars THEN Get(inc, f)
        ELSE ext[f]]

\* The else branch of the token merge: ext.marketCap = inc.marketCap; ...
\* if (inc.holders) ext.holders = inc.holders; ...
mergeToken(ext, inc) ==
    LET given == {h \in TokenHeavy : Truthy(Get(inc, h))}
    IN  [f \in DOMAIN ext \cup TokenScalars \cup given |->
            IF f \in TokenScalars THEN Get(inc, f)
            ELSE IF f \in given THEN inc[f]
            ELSE ext[f]]

\* data.tokens: a new token is stored as sent, an existing one is merged;
\* either way the collection is marked dirty.
mergeTokens(st, inc) ==
    LET tokens == st.data.obj
    IN  [data |-> Obj([tid \in DOMAIN tokens \cup DOMAIN inc.obj |->
                          IF tid \notin DOMAIN inc.obj THEN tokens[tid]
                          ELSE IF tid \notin DOMAIN tokens THEN inc.obj[tid]
                          ELSE mergeToken(tokens[tid], inc.obj[tid])]),
         dirty |-> st.dirty \/ DOMAIN inc.obj # {}]

\* A bots merge that does not mark the collection.
mergeBotsQuiet(st, inc) == [data |-> inc, dirty |-> st.dirty]

\* if (data.bots) { collections.bots.data = data.bots; dirty = true; }
mergeBots(st, inc) == [data |-> inc, dirty |-> TRUE]

\* A find that never finds.
findTransferNever(list, id) == 0

\* transfers.find(x => x.id === tx.id): the index of the first one, 0 if none.
findTransfer(list, id) ==
    LET hits == {i \in 1..Len(list) : list[i].id = id}
    IN  IF hits = {} THEN 0 ELSE CHOOSE i \in hits : \A h \in hits : i <= h

\* else if (!exists.claimed && tx.claimed)
claimNow(exists, tx) == ~exists.claimed /\ tx.claimed

\* The body of data.transfers.forEach for one tx.
mergeTransfer(st, tx) ==
    LET list == st.data.arr
        at == findTransfer(list, tx.id)
    IN  IF at = 0
        THEN [data |-> Arr(Append(list, tx)), dirty |-> TRUE]
        ELSE IF claimNow(list[at], tx)
        THEN [data |-> Arr([list EXCEPT ![at].claimed = TRUE]), dirty |-> TRUE]
        ELSE st

RECURSIVE mergeTransfers(_, _)
mergeTransfers(st, txs) ==
    IF txs = <<>> THEN st
    ELSE mergeTransfers(mergeTransfer(st, Head(txs)), Tail(txs))

\* A merge that takes the token from the collection.
mergeKeyFresh(key, col, data) == [col EXCEPT !.sha = 0, !.dirty = TRUE]

\* The merge of the member `key` of data into the collection `col`.
mergeKey(key, col, data) ==
    LET st == [data |-> col.data, dirty |-> col.dirty]
        out == IF ~Truthy(Get(data, key)) THEN st
               ELSE IF key = "users" THEN mergeUsers(st, data[key])
               ELSE IF key = "tokens" THEN mergeTokens(st, data[key])
               ELSE IF key = "bots" THEN mergeBots(st, data[key])
               ELSE mergeTransfers(st, data[key].arr)
    IN  [col EXCEPT !.data = out.data, !.dirty = out.dirty]

\* A handler that serves no request while a cycle of saveLoop is running.
streamWaits(body) ==
    /\ variant = "pc"
    /\ ~isSaving
    /\ nStream < MaxStream
    /\ nStream' = nStream + 1
    /\ collections' =
           IF ~Truthy(Get(body, "data")) THEN collections
           ELSE [key \in KeySet |-> mergeKey(key, collections[key], body.data)]
    /\ UNCHANGED <<variant, shutdown, memoryDb, fileSha, gistId, isDirty, isSaving,
                   store, gists, loadLog, flights, nExternal, lastConflict>>

\* The handler: `if (!data) return res.json({ success: false })`, then the
\* four merges.
stream(body) ==
    /\ variant = "pc"
    /\ nStream < MaxStream
    /\ nStream' = nStream + 1
    /\ collections' =
           IF ~Truthy(Get(body, "data")) THEN collections
           ELSE [key \in KeySet |-> mergeKey(key, collections[key], body.data)]
    /\ UNCHANGED <<variant, shutdown, memoryDb, fileSha, gistId, isDirty, isSaving,
                   store, gists, loadLog, flights, nExternal, lastConflict>>

-----------------------------------------------------------------------------
(* The single-blob variants (sb, lg): database.json holds memoryDb.        *)

\* JSON.stringify(memoryDb, null, 2), base64.
StringifyDb(db) == [json |-> [db EXCEPT !.tokens = StripTokens(@)]]

\* json.users || {} and the like: a member the document lacks is replaced.
OrElse(json, k, default) == IF Truthy(Get(json, k)) THEN json[k] ELSE default

\* sb: memoryDb = { users: json.users || {}, tokens: json.tokens || {}, ... }
restoredDb(json) ==
    [users |-> OrElse(json, "users", Obj(EmptyMap)),
     tokens |-> OrElse(json, "tokens", Obj(EmptyMap)),
     transfers |-> OrElse(json, "transfers", Arr(<<>>)),
     chat |-> OrElse(json, "chat", Arr(<<>>))]

\* sb: initStorage is answered with the blob; fileSha is set before the
\* text is parsed, and a text that does not parse leaves memoryDb alone.
initStorageFoundSB ==
    /\ variant = "sb"
    /\ shutdown # "exited"
    /\ loadLog["db"] = "pending"
    /\ BlobExists(DB_PATH)
    /\ fileSha' = store[DB_PATH].sha
    /\ memoryDb' = IF CanParse(store[DB_PATH].content)
                   THEN restoredDb(Parse(store[DB_PATH].content))
                   ELSE memoryDb
    /\ loadLog' = [loadLog EXCEPT !["db"] =
                      IF CanParse(store[DB_PATH].content) THEN "found" ELSE "corrupt"]
    /\ UNCHANGED <<variant, shutdown, collections, gistId, isDirty, isSaving, store,
                   gists, flights, nStream, nExternal, lastConflict>>

\* sb: status 404: isDirty = true, so that the first save creates the file.
initStorageMissingSB ==
    /\ variant = "sb"
    /\ shutdown # "exited"
    /\ loadLog["db"] = "pending"
    /\ ~BlobExists(DB_PATH)
    /\ isDirty' = TRUE
    /\ loadLog' = [loadLog EXCEPT !["db"] = "missing"]
    /\ UNCHANGED <<variant, shutdown, collections, memoryDb, fileSha, gistId, isSaving,
                   store, gists, flights, nStream, nExternal, lastConflict>>

\* sb, lg: the GET fails with another status: logged only.
initStorageErrorSB ==
    /\ variant \in {"sb", "lg"}
    /\ shutdown # "exited"
    /\ loadLog["db"] = "pending"
    /\ loadLog' = [loadLog EXCEPT !["db"] = "error"]
    /\ UNCHANGED <<variant, shutdown, collections, memoryDb, fileSha, gistId, isDirty,
                   isSaving, store, gists, flights, nStream, nExternal, lastConflict>>

\* The activation of a flush routine that has a request of its own pending.
Flight(fn, pc, content, sha) ==
    [fn |-> fn, pc |-> pc, dirtyKeys |-> <<>>, i |-> 0,
     content |-> content, sha |-> sha, tried |-> {}]

\* sb: emergencySave after `await saveToRepo()`: process.exit(0).  The
\* continuation runs as soon as saveToRepo returns, before any other
\* callback.
emergencySaveResumes == IF shutdown = "await" THEN "exited" ELSE shutdown

\* sb: if (!isDirty || isSaving) return;
saveToRepoSkips == ~isDirty \/ isSaving

\* sb: setInterval(saveToRepo, 1000): the timer fires.
saveToRepo ==
    /\ variant = "sb"
    /\ shutdown # "exited"
    /\ IF saveToRepoSkips
       THEN UNCHANGED vars
       ELSE /\ Len(flights) < MaxFlights
            /\ isSaving' = TRUE
            /\ flights' = Append(flights,
                   Flight("saveToRepo", "put", StringifyDb(memoryDb), fileSha))
            /\ UNCHANGED <<variant, shutdown, collections, memoryDb, fileSha, gistId,
                           isDirty, store, gists, loadLog, nStream, nExternal, lastConflict>>

\* sb: what a successful PUT leaves in isDirty.
saveToRepoClean == FALSE

\* sb: the PUT is accepted: fileSha and isDirty are updated, then finally.
saveToRepoPutOk(j) ==
    /\ variant = "sb"
    /\ shutdown # "exited"
    /\ j \in 1..Len(flights)
    /\ flights[j].pc = "put"
    /\ PutAccepted(DB_PATH, flights[j].sha)
    /\ store' = StoreAfterPut(DB_PATH, flights[j].content)
    /\ fileSha' = store[DB_PATH].sha + 1
    /\ isDirty' = saveToRepoClean
    /\ isSaving' = FALSE
    /\ flights' = Remove(flights, j)
    /\ shutdown' = emergencySaveResumes
    /\ lastConflict' = [lastConflict EXCEPT !["db"] = "none"]
    /\ UNCHANGED <<variant, collections, memoryDb, gistId, gists, loadLog,
                   nStream, nExternal>>

\* sb: status 409: the catch block awaits refreshSha().
saveToRepoPutConflict(j) ==
    /\ variant = "sb"
    /\ shutdown # "exited"
    /\ j \in 1..Len(flights)
    /\ flights[j].pc = "put"
    /\ PutConflicts(DB_PATH, flights[j].sha)
    /\ flights' = [flights EXCEPT ![j].pc = "get", ![j].content = Garbage,
                                  ![j].sha = 0]
    /\ lastConflict' = [lastConflict EXCEPT !["db"] = "conflict"]
    /\ UNCHANGED <<variant, shutdown, collections, memoryDb, fileSha, gistId, isDirty,
                   isSaving, store, gists, loadLog, nStream, nExternal>>

\* sb: another error: nothing but finally { isSaving = false }.
saveToRepoPutError(j) ==
    /\ variant = "sb"
    /\ shutdown # "exited"
    /\ j \in 1..Len(flights)
    /\ flights[j].pc = "put"
    /\ isSaving' = FALSE
    /\ flights' = Remove(flights, j)
    /\ shutdown' = emergencySaveResumes
    /\ UNCHANGED <<variant, collections, memoryDb, fileSha, gistId, isDirty,
                   store, gists, loadLog, nStream, nExternal, lastConflict>>

\* sb: refreshSha is answered: fileSha = data.sha; then finally.
refreshShaOk(j) ==
    /\ variant = "sb"
    /\ shutdown # "exited"
    /\ j \in 1..Len(flights)
    /\ flights[j].pc = "get"
    /\ BlobExists(DB_PATH)
    /\ fileSha' = store[DB_PATH].sha
    /\ isSaving' = FALSE
    /\ flights' = Remove(flights, j)
    /\ shutdown' = emergencySaveResumes
    /\ lastConflict' = [lastConflict EXCEPT !["db"] = "refreshed"]
    /\ UNCHANGED <<variant, collections, memoryDb, gistId, isDirty, store,
                   gists, loadLog, nStream, nExternal>>

\* sb: refreshSha fails and returns false; then finally.
refreshShaError(j) ==
    /\ variant = "sb"
    /\ shutdown # "exited"
    /\ j \in 1..Len(flights)
    /\ flights[j].pc = "get"
    /\ isSaving' = FALSE
    /\ flights' = Remove(flights, j)
    /\ shutdown' = emergencySaveResumes
    /\ UNCHANGED <<variant, collections, memoryDb, fileSha, gistId, isDirty,
                   store, gists, loadLog, nStream, nExternal, lastConflict>>

\* sb: SIGTERM or SIGINT arrives.  emergencySave runs to its end when it has
\* nothing to await: isDirty is false, or saveToRepo returns at its first
\* line because a save is in flight.  Otherwise saveToRepo sends its PUT and
\* emergencySave awaits it.
emergencySave ==
    /\ variant = "sb"
    /\ shutdown # "exited"
    /\ IF isDirty /\ ~saveToRepoSkips
       THEN /\ Len(flights) < MaxFlights
            /\ isSaving' = TRUE
            /\ flights' = Append(flights,
                   Flight("saveToRepo", "put", StringifyDb(memoryDb), fileSha))
            /\ shutdown' = "await"
       ELSE /\ shutdown' = "exited"
            /\ UNCHANGED <<isSaving, flights>>
    /\ UNCHANGED <<variant, collections, memoryDb, fileSha, gistId, isDirty,
                   store, gists, loadLog, nStream, nExternal, lastConflict>>

-----------------------------------------------------------------------------
(* sb: POST /api/stream.  The response is sent first; the merges follow.   *)
(* A state of the merge is [db, changed].                                  *)

\* sb: a new user is stored as sent, an existing one becomes
\* { ...existing, ...incoming }; changesDetected is set either way.
mergeUsersSB(users, inc) ==
    Obj([u \in DOMAIN users.obj \cup DOMAIN inc.obj |->
            IF u \notin DOMAIN inc.obj THEN users.obj[u]
            ELSE IF u \notin DOMAIN users.obj THEN inc.obj[u]
            ELSE Spread(users.obj[u], inc.obj[u])])

\* sb: existing.marketCap = incoming.marketCap; ... holders falls back to the
\* old value; chartData and a non-empty tradeLog replace the old ones.
mergeTokenSB(ext, inc) ==
    LET always == {"marketCap", "price", "liquidityDepth"}
        chart == IF Truthy(Get(inc, "chartData")) THEN {"chartData"} ELSE {}
        log == IF Truthy(Get(inc, "tradeLog")) /\ Len(inc.tradeLog.arr) > 0
               THEN {"tradeLog"} ELSE {}
    IN  [f \in DOMAIN ext \cup always \cup {"holders"} \cup chart \cup log |->
            IF f \in always THEN Get(inc, f)
            ELSE IF f = "holders"
                 THEN (IF Truthy(Get(inc, f)) THEN inc[f] ELSE Get(ext, f))
            ELSE IF f \in chart \cup log THEN inc[f]
            ELSE ext[f]]

mergeTokensSB(tokens, inc) ==
    Obj([tid \in DOMAIN tokens.obj \cup DOMAIN inc.obj |->
            IF tid \notin DOMAIN inc.obj THEN tokens.obj[tid]
            ELSE IF tid \notin DOMAIN tokens.obj THEN inc.obj[tid]
            ELSE mergeTokenSB(tokens.obj[tid], inc.obj[tid])])

\* sb: the merges of one request; changed is changesDetected.
mergedSB(db, data) ==
    LET hasU == Truthy(Get(data, "users"))
        hasX == Truthy(Get(data, "transfers"))
        hasT == Truthy(Get(data, "tokens"))
        hasC == Truthy(Get(data, "chat"))
        tx == IF hasX
              THEN mergeTransfers([data |-> db.transfers, dirty |-> FALSE],
                                  data.transfers.arr)
              ELSE [data |-> db.transfers, dirty |-> FALSE]
    IN  [db |-> [users |-> IF hasU THEN mergeUsersSB(db.users, data.users)
                           ELSE db.users,
                 tokens |-> IF hasT THEN mergeTokensSB(db.tokens, data.tokens)
                            ELSE db.tokens,
                 transfers |-> tx.data,
                 chat |-> IF hasC THEN data.chat ELSE db.chat],
         changed |-> \/ hasU /\ DOMAIN data.users.obj # {}
                     \/ tx.dirty
                     \/ hasT /\ DOMAIN data.tokens.obj # {}
                     \/ hasC]

streamSB(body) ==
    /\ variant = "sb"
    /\ shutdown # "exited"
    /\ nStream < MaxStream
    /\ nStream' = nStream + 1
    /\ IF ~Truthy(Get(body, "data"))
       THEN UNCHANGED <<memoryDb, isDirty>>
       ELSE /\ memoryDb' = mergedSB(memoryDb, body.data).db
            /\ isDirty' = (isDirty \/ mergedSB(memoryDb, body.data).changed)
    /\ UNCHANGED <<variant, shutdown, collections, fileSha, gistId, isSaving, store,
                   gists, loadLog, flights, nExternal, lastConflict>>

-----------------------------------------------------------------------------
(* lg: the first single-blob server (src/server.js, lines 1-143).          *)

\* lg: what initStorage does with the blob it is answered with: fileSha is
\* set, and memoryDb becomes the parsed text when it parses.
initStorageReadLG ==
    /\ fileSha' = store[DB_PATH].sha
    /\ memoryDb' = IF CanParse(store[DB_PATH].content)
                   THEN Parse(store[DB_PATH].content)
                   ELSE memoryDb

\* lg: the initStorage() of the start is answered with the blob.
initStorageFoundLG ==
    /\ variant = "lg"
    /\ loadLog["db"] = "pending"
    /\ BlobExists(DB_PATH)
    /\ initStorageReadLG
    /\ loadLog' = [loadLog EXCEPT !["db"] = IF CanParse(store[DB_PATH].content) THEN "found" ELSE "corrupt"]
    /\ UNCHANGED <<variant, shutdown, collections, gistId, isDirty, isSaving, store,
                   gists, flights, nStream, nExternal, lastConflict>>

\* lg: status 404: the file is created by the first save.
initStorageMissingLG ==
    /\ variant = "lg"
    /\ loadLog["db"] = "pending"
    /\ ~BlobExists(DB_PATH)
    /\ loadLog' = [loadLog EXCEPT !["db"] = "missing"]
    /\ UNCHANGED <<variant, shutdown, collections, memoryDb, fileSha, gistId, isDirty,
                   isSaving, store, gists, flights, nStream, nExternal, lastConflict>>

\* lg: setInterval(saveToRepo, 2000): `if (!isDirty) return;`, then the text
\* is taken, isDirty is set to false and the PUT is sent.
saveToRepoLG ==
    /\ variant = "lg"
    /\ IF ~isDirty
       THEN UNCHANGED vars
       ELSE /\ Len(flights) < MaxFlights
            /\ isDirty' = FALSE
            /\ flights' = Append(flights,
                   Flight("saveToRepo", "put", StringifyDb(memoryDb), fileSha))
            /\ UNCHANGED <<variant, shutdown, collections, memoryDb, fileSha, gistId,
                           isSaving, store, gists, loadLog, nStream, nExternal, lastConflict>>

\* lg: the PUT is accepted: fileSha = res.data.content.sha.
saveToRepoPutOkLG(j) ==
    /\ variant = "lg"
    /\ j \in 1..Len(flights)
    /\ flights[j].pc = "put"
    /\ PutAccepted(DB_PATH, flights[j].sha)
    /\ store' = StoreAfterPut(DB_PATH, flights[j].content)
    /\ fileSha' = store[DB_PATH].sha + 1
    /\ flights' = Remove(flights, j)
    /\ UNCHANGED <<variant, shutdown, collections, memoryDb, gistId, isDirty, isSaving,
                   gists, loadLog, nStream, nExternal, lastConflict>>

\* lg: status 409: isDirty = true, then `await initStorage()`.
saveToRepoPutConflictLG(j) ==
    /\ variant = "lg"
    /\ j \in 1..Len(flights)
    /\ flights[j].pc = "put"
    /\ PutConflicts(DB_PATH, flights[j].sha)
    /\ isDirty' = TRUE
    /\ flights' = [flights EXCEPT ![j].pc = "get", ![j].content = Garbage,
                                  ![j].sha = 0]
    /\ UNCHANGED <<variant, shutdown, collections, memoryDb, fileSha, gistId, isSaving,
                   store, gists, loadLog, nStream, nExternal, lastConflict>>

\* lg: another error: isDirty = true.
saveToRepoPutErrorLG(j) ==
    /\ variant = "lg"
    /\ j \in 1..Len(flights)
    /\ flights[j].pc = "put"
    /\ isDirty' = TRUE
    /\ flights' = Remove(flights, j)
    /\ UNCHANGED <<variant, shutdown, collections, memoryDb, fileSha, gistId, isSaving,
                   store, gists, loadLog, nStream, nExternal, lastConflict>>

\* lg: the initStorage() awaited after a conflict is answered with the blob.
saveToRepoReloadLG(j) ==
    /\ variant = "lg"
    /\ j \in 1..Len(flights)
    /\ flights[j].pc = "get"
    /\ BlobExists(DB_PATH)
    /\ initStorageReadLG
    /\ flights' = Remove(flights, j)
    /\ UNCHANGED <<variant, shutdown, collections, gistId, isDirty, isSaving, store,
                   gists, loadLog, nStream, nExternal, lastConflict>>

\* lg: the initStorage() awaited after a conflict fails: it logs.
saveToRepoReloadErrorLG(j) ==
    /\ variant = "lg"
    /\ j \in 1..Len(flights)
    /\ flights[j].pc = "get"
    /\ flights' = Remove(flights, j)
    /\ UNCHANGED <<variant, shutdown, collections, memoryDb, fileSha, gistId, isDirty,
                   isSaving, store, gists, loadLog, nStream, nExternal, lastConflict>>

\* lg, gi: memoryDb.users = { ...memoryDb.users, ...data.users }
mergeUsersLG(users, inc) ==
    Obj([u \in DOMAIN users.obj \cup DOMAIN inc.obj |->
            IF u \in DOMAIN inc.obj THEN inc.obj[u] ELSE users.obj[u]])

\* lg, gi: a transfer that is found takes the claimed of the one sent.
mergeTransferLG(list, tx) ==
    LET at == findTransfer(list, tx.id)
    IN  IF at = 0 THEN Append(list, tx)
        ELSE [list EXCEPT ![at].claimed = tx.claimed]

RECURSIVE mergeTransfersLG(_, _)
mergeTransfersLG(list, txs) ==
    IF txs = <<>> THEN list
    ELSE mergeTransfersLG(mergeTransferLG(list, Head(txs)), Tail(txs))

\* lg: memoryDb.tokens[tid] = { ...existing, ...incoming }
mergeTokenLG(ext, inc) ==
    [f \in DOMAIN ext \cup DOMAIN inc |-> IF f \in DOMAIN inc THEN inc[f] ELSE ext[f]]

\* gi: marketCap, holders, liquidityDepth and tradeLog are overwritten,
\* chartData only when the update has it.
mergeTokenGI(ext, inc) ==
    LET always == {"marketCap", "holders", "liquidityDepth", "tradeLog"}
        chart == IF Truthy(Get(inc, "chartData")) THEN {"chartData"} ELSE {}
    IN  [f \in DOMAIN ext \cup always \cup chart |->
            IF f \in always THEN Get(inc, f)
            ELSE IF f \in chart THEN inc[f]
            ELSE ext[f]]

mergeTokensLG(tokens, inc) ==
    Obj([tid \in DOMAIN tokens.obj \cup DOMAIN inc.obj |->
            IF tid \notin DOMAIN inc.obj THEN tokens.obj[tid]
            ELSE IF tid \notin DOMAIN tokens.obj THEN inc.obj[tid]
            ELSE IF variant = "gi" THEN mergeTokenGI(tokens.obj[tid], inc.obj[tid])
            ELSE mergeTokenLG(tokens.obj[tid], inc.obj[tid])])

\* lg, gi: the merges of one request.
mergedLG(db, data) ==
    [db EXCEPT
        !.users = IF Truthy(Get(data, "users"))
                  THEN mergeUsersLG(@, data.users) ELSE @,
        !.transfers = IF Truthy(Get(data, "transfers"))
                      THEN Arr(mergeTransfersLG(@.arr, data.transfers.arr)) ELSE @,
        !.tokens = IF Truthy(Get(data, "tokens"))
                   THEN mergeTokensLG(@, data.tokens) ELSE @]

\* lg, gi: `if (!data) return res.status(400)`; the merges; isDirty = true.
streamLG(body) ==
    /\ variant \in {"lg", "gi"}
    /\ nStream < MaxStream
    /\ nStream' = nStream + 1
    /\ IF ~Truthy(Get(body, "data"))
       THEN UNCHANGED <<memoryDb, isDirty>>
       ELSE /\ memoryDb' = mergedLG(memoryDb, body.data)
            /\ isDirty' = TRUE
    /\ UNCHANGED <<variant, shutdown, collections, fileSha, gistId, isSaving, store,
                   gists, loadLog, flights, nExternal, lastConflict>>

-----------------------------------------------------------------------------
(* gi: the Gist server (src/unnamed/part_003), run with GITHUB_TOKEN set.  *)
(* A Gist is known by its index in `gists`; gistId 0 is null.              *)

\* gi: GET /gists is answered and a Gist has the file: gistId = found.id, and
\* the Gist is asked for.  With several such Gists the one the list shows
\* first is not fixed by the code.
initializeStorageListed(j, id) ==
    /\ variant = "gi"
    /\ j \in 1..Len(flights)
    /\ flights[j].fn = "initializeStorage"
    /\ flights[j].pc = "list"
    /\ id \in 1..Len(gists)
    /\ gistId' = id
    /\ flights' = [flights EXCEPT ![j].pc = "getGist", ![j].sha = id]
    /\ UNCHANGED <<variant, shutdown, collections, memoryDb, fileSha, isDirty, isSaving,
                   store, gists, loadLog, nStream, nExternal, lastConflict>>

\* gi: GET /gists is answered and no Gist has the file.
initializeStorageNone(j) ==
    /\ variant = "gi"
    /\ j \in 1..Len(flights)
    /\ flights[j].fn = "initializeStorage"
    /\ flights[j].pc = "list"
    /\ gists = <<>>
    /\ flights' = Remove(flights, j)
    /\ UNCHANGED <<variant, shutdown, collections, memoryDb, fileSha, gistId, isDirty,
                   isSaving, store, gists, loadLog, nStream, nExternal, lastConflict>>

\* gi: GET /gists/{gist_id} is answered: memoryDb = JSON.parse(rawBody); a
\* text that does not parse throws into the catch block.
initializeStorageRead(j) ==
    /\ variant = "gi"
    /\ j \in 1..Len(flights)
    /\ flights[j].fn = "initializeStorage"
    /\ flights[j].pc = "getGist"
    /\ memoryDb' = IF CanParse(gists[flights[j].sha])
                   THEN Parse(gists[flights[j].sha])
                   ELSE memoryDb
    /\ flights' = Remove(flights, j)
    /\ UNCHANGED <<variant, shutdown, collections, fileSha, gistId, isDirty, isSaving,
                   store, gists, loadLog, nStream, nExternal, lastConflict>>

\* gi: either request of initializeStorage fails: the catch block logs.
initializeStorageError(j) ==
    /\ variant = "gi"
    /\ j \in 1..Len(flights)
    /\ flights[j].fn = "initializeStorage"
    /\ flights' = Remove(flights, j)
    /\ UNCHANGED <<variant, shutdown, collections, memoryDb, fileSha, gistId, isDirty,
                   isSaving, store, gists, loadLog, nStream, nExternal, lastConflict>>

\* The activations of the flush routine among the flights.
Flushes == {j \in 1..Len(flights) : flights[j].fn # "initializeStorage"}

\* gi: setInterval(persistData, 5000): `if (!isDirty) return;`, the payload
\* is taken, isDirty is set to false, and a Gist is created when gistId is
\* null, updated otherwise.
persistData ==
    /\ variant = "gi"
    /\ IF ~isDirty
       THEN UNCHANGED vars
       ELSE /\ Cardinality(Flushes) < MaxFlights
            /\ isDirty' = FALSE
            /\ flights' = Append(flights,
                   Flight("persistData", IF gistId = 0 THEN "post" ELSE "patch",
                          StringifyDb(memoryDb), gistId))
            /\ UNCHANGED <<variant, shutdown, collections, memoryDb, fileSha, gistId,
                           isSaving, store, gists, loadLog, nStream, nExternal, lastConflict>>

\* gi: POST /gists is answered: gistId = res.data.id.
persistDataCreated(j) ==
    /\ variant = "gi"
    /\ j \in 1..Len(flights)
    /\ flights[j].pc = "post"
    /\ gists' = Append(gists, flights[j].content)
    /\ gistId' = Len(gists) + 1
    /\ flights' = Remove(flights, j)
    /\ UNCHANGED <<variant, shutdown, collections, memoryDb, fileSha, isDirty, isSaving,
                   store, loadLog, nStream, nExternal, lastConflict>>

\* gi: PATCH /gists/{gist_id} is answered.
persistDataPatched(j) ==
    /\ variant = "gi"
    /\ j \in 1..Len(flights)
    /\ flights[j].pc = "patch"
    /\ gists' = [gists EXCEPT ![flights[j].sha] = flights[j].content]
    /\ flights' = Remove(flights, j)
    /\ UNCHANGED <<variant, shutdown, collections, memoryDb, fileSha, gistId, isDirty,
                   isSaving, store, loadLog, nStream, nExternal, lastConflict>>

\* gi: the request fails: isDirty = true.
persistDataError(j) ==
    /\ variant = "gi"
    /\ j \in 1..Len(flights)
    /\ flights[j].pc \in {"post", "patch"}
    /\ isDirty' = TRUE
    /\ flights' = Remove(flights, j)
    /\ UNCHANGED <<variant, shutdown, collections, memoryDb, fileSha, gistId, isSaving,
                   store, gists, loadLog, nStream, nExternal, lastConflict>>

-----------------------------------------------------------------------------
(* Initial states and inputs.                                              *)

Variants == {"pc", "sb", "lg", "gi"}

InitMemoryDb ==
    [users |-> Obj(EmptyMap), tokens |-> Obj(EmptyMap),
     transfers |-> Arr(<<>>), chat |-> Arr(<<>>)]

Transfer(id, claimed) == [id |-> id, claimed |-> claimed]

\* What the repository may hold when the server starts.  For the single-blob
\* servers: nothing (a new repository), or the database.json of an earlier
\* run, sound or damaged.  For the per-collection server: the files of an
\* earlier run, of which users.json is missing and bots.json is damaged, so
\* that every answer of the load sequence occurs.
SeedData(key) ==
    IF key = "transfers" THEN Arr(<<Transfer("t1", FALSE)>>) ELSE EmptyDefault(key)

SeedBlob(key) ==
    IF key = "users" THEN NoBlob
    ELSE IF key = "bots" THEN [sha |-> 1, content |-> Garbage]
    ELSE [sha |-> 1, content |-> Stringify(key, SeedData(key))]

SeedDb == [InitMemoryDb EXCEPT !.transfers = SeedData("transfers")]

InitStores(v) ==
    IF v = "pc"
    THEN {[p \in Paths |-> IF p = DB_PATH THEN NoBlob ELSE SeedBlob(BlobName(p))]}
    ELSE IF v \in {"sb", "lg"}
    THEN {[p \in Paths |-> NoBlob]} \cup
         {[p \in Paths |-> IF p = DB_PATH
                           THEN [sha |-> 1, content |-> c] ELSE NoBlob] :
             c \in {StringifyDb(SeedDb), Garbage}}
    ELSE {[p \in Paths |-> NoBlob]}

InitGists(v) ==
    IF v = "gi" THEN {<<>>, <<StringifyDb(SeedDb)>>, <<Garbage>>} ELSE {<<>>}

\* The request bodies of POST /api/stream the specification Spec draws from.
Bodies ==
    { EmptyMap,
      [data |-> [transfers |-> Arr(<<Transfer("t1", FALSE)>>)]],
      [data |-> [transfers |-> Arr(<<Transfer("t1", TRUE)>>)]],
      [data |-> [bots |-> Arr(<<Num(1)>>)]] }

\* The state when the server listens: the load sequence has sent its first
\* requests and the save timer is set.
Init ==
    /\ variant \in Variants
    /\ collections = InitCollections
    /\ memoryDb = InitMemoryDb
    /\ fileSha = 0
    /\ gistId = 0
    /\ isDirty = FALSE
    /\ isSaving = FALSE
    /\ store \in InitStores(variant)
    /\ gists \in InitGists(variant)
    /\ loadLog = [b \in KeySet \cup {"db"} |->
                     IF (variant = "pc" /\ b \in KeySet)
                        \/ (variant \in {"sb", "lg"} /\ b = "db")
                     THEN "pending" ELSE "none"]
    /\ flights = IF variant = "gi"
                 THEN <<Flight("initializeStorage", "list", Garbage, 0)>>
                 ELSE <<>>
    /\ nStream = 0
    /\ nExternal = 0
    /\ lastConflict = [b \in KeySet \cup {"db"} |-> "none"]
    /\ shutdown = "none"

NextPC(B) ==
    \/ \E key \in KeySet : initStorageFound(key)
    \/ \E key \in KeySet : initStorageCorrupt(key)
    \/ \E key \in KeySet : initStorageMissing(key)
    \/ \E key \in KeySet : initStorageError(key)
    \/ saveLoop
    \/ \E j \in 1..MaxFlights : saveLoopPutOk(j)
    \/ \E j \in 1..MaxFlights : saveLoopPutConflict(j)
    \/ \E j \in 1..MaxFlights : saveLoopPutError(j)
    \/ \E j \in 1..MaxFlights : saveLoopRefreshOk(j)
    \/ \E j \in 1..MaxFlights : saveLoopRefreshError(j)
    \/ \E body \in B : stream(body)

NextSB(B) ==
    \/ initStorageFoundSB
    \/ initStorageMissingSB
    \/ initStorageErrorSB
    \/ saveToRepo
    \/ \E j \in 1..MaxFlights : saveToRepoPutOk(j)
    \/ \E j \in 1..MaxFlights : saveToRepoPutConflict(j)
    \/ \E j \in 1..MaxFlights : saveToRepoPutError(j)
    \/ \E j \in 1..MaxFlights : refreshShaOk(j)
    \/ \E j \in 1..MaxFlights : refreshShaError(j)
    \/ \E body \in B : streamSB(body)

NextLG(B) ==
    \/ initStorageFoundLG
    \/ initStorageMissingLG
    \/ saveToRepoLG
    \/ \E j \in 1..MaxFlights : saveToRepoPutOkLG(j)
    \/ \E j \in 1..MaxFlights : saveToRepoPutConflictLG(j)
    \/ \E j \in 1..MaxFlights : saveToRepoPutErrorLG(j)
    \/ \E j \in 1..MaxFlights : saveToRepoReloadLG(j)
    \/ \E j \in 1..MaxFlights : saveToRepoReloadErrorLG(j)
    \/ \E body \in B : streamLG(body)

NextGI(B) ==
    \/ \E j \in 1..(MaxFlights + 1), id \in 1..(MaxFlights + 1) :
           initializeStorageListed(j, id)
    \/ \E j \in 1..(MaxFlights + 1) : initializeStorageNone(j)
    \/ \E j \in 1..(MaxFlights + 1) : initializeStorageRead(j)
    \/ \E j \in 1..(MaxFlights + 1) : initializeStorageError(j)
    \/ persistData
    \/ \E j \in 1..(MaxFlights + 1) : persistDataCreated(j)
    \/ \E j \in 1..(MaxFlights + 1) : persistDataPatched(j)
    \/ \E j \in 1..(MaxFlights + 1) : persistDataError(j)
    \/ \E body \in B : streamLG(body)

Next ==
    \/ NextPC(Bodies)
    \/ NextSB(Bodies)
    \/ NextLG(Bodies)
    \/ NextGI(Bodies)
    \/ \E path \in Paths : ExternalWrite(path)

Spec == Init /\ [][Next]_vars

-----------------------------------------------------------------------------
(* Properties.                                                             *)

\* The activations that have a store write (PUT) outstanding.
Puts == {j \in 1..Len(flights) : flights[j].pc = "put"}

\* The variants whose flush routine is guarded by isSaving.
Guarded == variant \in {"pc", "sb"}

\* C1, state part: in the guarded variants at most one flush cycle is in
\* flight, it is in flight exactly while isSaving is true, and so at most one
\* PUT is outstanding.
OneCycle ==
    Guarded => /\ Len(flights) <= 1
               /\ Cardinality(Puts) <= 1
               /\ isSaving <=> (Len(flights) = 1)

\* C1: at most one flush cycle is in flight at any time, and a firing of the
\* timer of saveLoop or saveToRepo while isSaving is true issues no store
\* call and changes no state.
C1_NoOverlap ==
    /\ []OneCycle
    /\ [][(isSaving /\ (saveLoop \/ saveToRepo)) => UNCHANGED vars]_vars

\* C1, its case: a cycle of saveLoop has a PUT outstanding while a collection
\* is dirty, so a timer firing now would have something to write.
C1_Witness ==
    /\ variant = "pc"
    /\ isSaving
    /\ Puts # {}
    /\ dirtyKeys # <<>>

\* The key whose request the activation flights[j] of saveLoop awaits.
KeyOf(j) == flights[j].dirtyKeys[flights[j].i]

\* The store reports in this step that the write of collection k succeeded.
WriteSucceeds(k) ==
    \E j \in 1..Len(flights) :
        \/ k \in KeySet /\ saveLoopPutOk(j) /\ KeyOf(j) = k
        \/ k = "db" /\ \/ saveToRepoPutOk(j)
                       \/ saveToRepoPutOkLG(j)
                       \/ persistDataCreated(j)
                       \/ persistDataPatched(j)

\* The dirty flag of collection k is cleared in this step.
Cleared(k) ==
    IF k = "db" THEN isDirty /\ ~isDirty'
    ELSE collections[k].dirty /\ ~collections'[k].dirty

Optimistic == variant \in {"lg", "gi"}

\* C2, state part: in the guarded variants a collection whose PUT is
\* outstanding is still dirty.
DirtyWhilePut ==
    /\ variant = "pc" => \A j \in Puts : collections[KeyOf(j)].dirty
    /\ variant = "sb" => (Puts # {} => isDirty)

LoadFinished ==
    IF variant = "pc"
    THEN \A k \in KeySet : loadLog[k] \in {"found", "missing", "corrupt"}
    ELSE loadLog["db"] \in {"found", "missing", "corrupt"}

\* The in-memory value of collection k is the value the store holds for it.
Stored(k) ==
    /\ BlobExists(Path(k))
    /\ store[Path(k)].content = Stringify(k, collections[k].data)

\* C3, the half of it that guards against loss: in the per-collection
\* variant, after the load sequence has finished, a collection whose
\* in-memory value differs from the value last written to the store is dirty.
C3_UnflushedIsDirty ==
    (variant = "pc" /\ LoadFinished) =>
        \A k \in KeySet : ~Stored(k) => collections[k].dirty

\* The text of what memory holds now for the blob that flights[j] writes.
TextNow(j) ==
    IF variant = "pc" THEN Stringify(KeyOf(j), collections[KeyOf(j)].data)
    ELSE StringifyDb(memoryDb)

\* The dirty flag of the blob that flights[j] writes, after the step.
DirtyAfter(j) ==
    IF variant = "pc" THEN collections'[KeyOf(j)].dirty ELSE isDirty'

\* C4, in its finite form: when the PUT of a collection is accepted and
\* POST /api/stream has changed the collection since the PUT was sent, the
\* collection is dirty after the step, so that a later cycle of saveLoop or
\* saveToRepo writes the new value (a cycle writes dirty collections only).
C4_CapturedByLaterCycle ==
    [][\A j \in 1..Len(flights) :
          (/\ LoadFinished
           /\ saveLoopPutOk(j) \/ saveToRepoPutOk(j)
           /\ TextNow(j) # flights[j].content) => DirtyAfter(j)]_vars

\* The blobs by name: the four collections, and "db" for database.json.
Blobs == KeySet \cup {"db"}
PathOf(k) == IF k = "db" THEN DB_PATH ELSE Path(k)
Dirty(k) == IF k = "db" THEN isDirty ELSE collections[k].dirty
Token(k) == IF k = "db" THEN fileSha ELSE collections[k].sha

\* The blob that the activation flights[j] of a guarded flush routine writes.
BlobOf(j) == IF variant = "pc" THEN KeyOf(j) ELSE "db"

\* The steps of the guarded flush routines, by the blob they concern.
Conflict(k) ==
    \E j \in 1..Len(flights) :
        BlobOf(j) = k /\ (saveLoopPutConflict(j) \/ saveToRepoPutConflict(j))
RefreshOk(k) ==
    \E j \in 1..Len(flights) :
        BlobOf(j) = k /\ (saveLoopRefreshOk(j) \/ refreshShaOk(j))
PutOk(k) ==
    \E j \in 1..Len(flights) :
        BlobOf(j) = k /\ (saveLoopPutOk(j) \/ saveToRepoPutOk(j))

\* C5, state part: from the conflict until the next accepted write the
\* collection is dirty; once the token has been refreshed and while no other
\* writer has committed since, the token is the store's latest one, and the
\* PUT of a later cycle carries it, so that the store accepts it.
Recovering ==
    \A k \in Blobs :
        /\ lastConflict[k] # "none" => Dirty(k)
        /\ lastConflict[k] = "refreshed" =>
              /\ Token(k) = store[PathOf(k)].sha
              /\ \A j \in Puts : BlobOf(j) = k =>
                    /\ PutAccepted(PathOf(k), flights[j].sha)
                    /\ ENABLED (saveLoopPutOk(j) \/ saveToRepoPutOk(j))

\* C5: after a PUT answered with 409 the collection is still dirty, the
\* refresh replaces its token by the store's latest one, the next cycle
\* sends its PUT again, and that PUT, which the store accepts, clears the
\* dirty flag and stores the new token.
C5_ConflictRecovery ==
    /\ []Recovering
    /\ [][\A k \in Blobs : Conflict(k) => Dirty(k)']_vars
    /\ [][\A k \in Blobs :
            RefreshOk(k) => Dirty(k)' /\ Token(k)' = store'[PathOf(k)].sha]_vars
    /\ [][\A k \in Blobs :
            (lastConflict[k] = "refreshed" /\ ~isSaving /\ isSaving') =>
                \E j \in 1..Len(flights') :
                    /\ flights'[j].pc = "put"
                    /\ k \in {flights'[j].dirtyKeys[i] :
                                 i \in 1..Len(flights'[j].dirtyKeys)} \cup {"db"}]_vars
    /\ [][\A k \in Blobs :
            (lastConflict[k] = "refreshed" /\ PutOk(k)) =>
                /\ ~Dirty(k)'
                /\ Token(k)' = store'[PathOf(k)].sha
                /\ Token(k)' # Token(k)]_vars

\* C5, its case: after a conflict and a refresh, the next cycle has sent the
\* PUT of the collection.
C5_Witness ==
    /\ Guarded
    /\ \E j \in Puts : lastConflict[BlobOf(j)] = "refreshed"

\* The steps in which a flush routine handles a version conflict: the catch
\* block that sees status 409, and the answer to the request it then awaits.
ConflictSeen(j) ==
    \/ saveLoopPutConflict(j)
    \/ saveToRepoPutConflict(j)
    \/ saveToRepoPutConflictLG(j)
ConflictHandled(j) ==
    \/ ConflictSeen(j)
    \/ saveLoopRefreshOk(j) \/ saveLoopRefreshError(j)
    \/ refreshShaOk(j) \/ refreshShaError(j)
    \/ saveToRepoReloadLG(j) \/ saveToRepoReloadErrorLG(j)

\* The in-memory values of all collections.
Memory == <<[k \in KeySet |-> collections[k].data], memoryDb>>

\* C6: handling a version conflict only refreshes the version token: the
\* dirty flag is set after the 409 and no step of the handling clears it,
\* and every in-memory value is after each step of the handling what it was
\* before.
C6_ConflictKeepsMemory ==
    [][\A j \in 1..Len(flights) :
          /\ ConflictSeen(j) => Dirty(IF variant = "lg" THEN "db" ELSE BlobOf(j))'
          /\ ConflictHandled(j) =>
                /\ Memory' = Memory
                /\ \A k \in Blobs : ~Cleared(k)]_vars

\* The keys at the positions from..to of a sequence of keys.
KeysAt(keys, from, to) == {keys[i] : i \in from..to}

\* C7, state part: a cycle of saveLoop that is at its i-th key has sent the
\* PUT of each of the first i keys that were dirty when it started.
TriedInOrder ==
    variant = "pc" =>
        \A j \in 1..Len(flights) :
            flights[j].tried = KeysAt(flights[j].dirtyKeys, 1, flights[j].i)

\* C7: when the PUT of a collection fails with an error other than a
\* conflict, or the refresh after a conflict fails, the collection stays
\* dirty with the token it had, the cycle goes on to the PUT of the next
\* key, and a cycle ends only after it has sent the PUT of every collection
\* that was dirty when it started.
C7_ErrorSkipsOneKey ==
    /\ []TriedInOrder
    /\ [][\A j \in 1..Len(flights) :
            (saveLoopPutError(j) \/ saveLoopRefreshError(j)) =>
                /\ collections'[KeyOf(j)] = collections[KeyOf(j)]
                /\ collections'[KeyOf(j)].dirty
                /\ IF flights[j].i < Len(flights[j].dirtyKeys)
                   THEN /\ Len(flights') = Len(flights)
                        /\ flights'[j].pc = "put"
                        /\ flights'[j].i = flights[j].i + 1
                        /\ flights'[j].dirtyKeys = flights[j].dirtyKeys
                   ELSE ~isSaving']_vars
    /\ [][(variant = "pc" /\ isSaving /\ ~isSaving') =>
            \A j \in 1..Len(flights) :
                flights[j].tried = KeysAt(flights[j].dirtyKeys, 1,
                                          Len(flights[j].dirtyKeys))]_vars

\* C7, its case: no request has marked anything and no conflict has
\* happened, the first key of the cycle is still dirty, so its PUT has
\* failed, and the cycle has sent the PUT of a later key.
C7_Witness ==
    /\ variant = "pc"
    /\ nStream = 0
    /\ \E j \in Puts :
          /\ flights[j].i >= 2
          /\ collections[flights[j].dirtyKeys[1]].dirty
          /\ lastConflict[flights[j].dirtyKeys[1]] = "none"

\* The steps in which the store rejects the write of blob k, or the handling
\* of the rejection fails.
Rejected(k) ==
    \E j \in 1..Len(flights) :
        /\ BlobOf(j) = k
        /\ \/ saveLoopPutError(j) \/ saveLoopPutConflict(j)
           \/ saveLoopRefreshError(j)
           \/ saveToRepoPutError(j) \/ saveToRepoPutConflict(j)
           \/ refreshShaError(j)

\* The keys of which the cycle of flights[j] sends the PUT.
KeysOfCycle(f) ==
    IF variant = "pc" THEN KeysAt(f.dirtyKeys, 1, Len(f.dirtyKeys)) ELSE {"db"}

\* C8, state part: whenever something is dirty and no cycle is in flight, a
\* firing of the timer starts a cycle: nothing in the state postpones it.
RetryEnabled ==
    (Guarded /\ ~isSaving /\ \E k \in Blobs : Dirty(k)) =>
        ENABLED ((saveLoop \/ saveToRepo) /\ isSaving')

\* C8: a rejected write leaves the collection dirty, and every cycle that
\* starts sends, with no delay, the PUT of its first dirty key and has every
\* dirty collection among the keys it will write; no step but an accepted
\* write takes a collection out of the dirty ones.
C8_RetriesForEver ==
    /\ []RetryEnabled
    /\ [][\A k \in Blobs : (Guarded /\ Rejected(k)) => Dirty(k)']_vars
    /\ [][(Guarded /\ ~isSaving /\ isSaving') =>
            /\ Len(flights') = 1
            /\ flights'[1].pc = "put"
            /\ \A k \in Blobs : Dirty(k) => k \in KeysOfCycle(flights'[1])]_vars

\* C8, its case: the PUT of a collection was answered with a conflict, the
\* token was not refreshed, and a later cycle has sent the PUT again.
C8_Witness ==
    /\ Guarded
    /\ \E j \in Puts : lastConflict[BlobOf(j)] = "conflict"

\* The transfers list in memory.
Transfers ==
    IF variant = "pc" THEN collections.transfers.data.arr
    ELSE memoryDb.transfers.arr

\* POST /api/stream with this body is handled in this step.
StreamStep(body) == stream(body) \/ streamSB(body) \/ streamLG(body)

\* C9: a transfer that has claimed = true in the transfers list still has
\* claimed = true after any POST /api/stream, whatever the request carries.
C9_ClaimedMonotonic ==
    [][\A body \in Bodies :
          StreamStep(body) =>
              \A i \in 1..Len(Transfers) :
                  Transfers[i].claimed =>
                      \E n \in 1..Len(Transfers') :
                          /\ Transfers'[n].id = Transfers[i].id
                          /\ Transfers'[n].claimed]_vars

-----------------------------------------------------------------------------
(* The merges alone: the load sequence and POST /api/stream, with request  *)
(* bodies that carry two ids and repeat an id within one batch.            *)

MergeBodies ==
    { [data |-> EmptyMap],
      [data |-> [transfers |-> Arr(<<Transfer("t1", FALSE)>>)]],
      [data |-> [transfers |-> Arr(<<Transfer("t1", TRUE)>>)]],
      [data |-> [transfers |-> Arr(<<Transfer("t2", FALSE)>>)]],
      [data |-> [transfers |-> Arr(<<Transfer("t1", FALSE), Transfer("t1", TRUE)>>)]],
      [data |-> [transfers |-> Arr(<<Transfer("t2", TRUE), Transfer("t1", FALSE),
                                     Transfer("t2", FALSE)>>)]] }

MergeNext ==
    \/ \E key \in KeySet : initStorageFound(key)
    \/ \E key \in KeySet : initStorageCorrupt(key)
    \/ \E key \in KeySet : initStorageMissing(key)
    \/ \E key \in KeySet : initStorageError(key)
    \/ initStorageFoundSB
    \/ initStorageMissingSB
    \/ initStorageErrorSB
    \/ initStorageFoundLG
    \/ initStorageMissingLG
    \/ \E id \in 1..(MaxFlights + 1) : initializeStorageListed(1, id)
    \/ initializeStorageNone(1)
    \/ initializeStorageRead(1)
    \/ initializeStorageError(1)
    \/ \E body \in MergeBodies : stream(body)
    \/ \E body \in MergeBodies : streamSB(body)
    \/ \E body \in MergeBodies : streamLG(body)

MergeSpec == Init /\ [][MergeNext]_vars

\* The ids of a list of transfers, and the transfers a request carries.
Ids(list) == {list[i].id : i \in 1..Len(list)}
Sent(body) ==
    IF Truthy(Get(body.data, "transfers")) THEN body.data.transfers.arr ELSE <<>>

\* C10, state part: no two transfers of the list share an id.
NoDupIds ==
    \A i, n \in 1..Len(Transfers) : Transfers[i].id = Transfers[n].id => i = n

\* C10: no two transfers share an id; a POST /api/stream leaves every
\* transfer of the list at its place, and lengthens the list by one entry
\* for each id it carries that the list does not have, however often the
\* batch repeats the id.
C10_AppendOnlyById ==
    /\ []NoDupIds
    /\ [][\A body \in MergeBodies :
            StreamStep(body) =>
                /\ Len(Transfers') =
                      Len(Transfers) + Cardinality(Ids(Sent(body)) \ Ids(Transfers))
                /\ \A i \in 1..Len(Transfers) :
                      Transfers'[i].id = Transfers[i].id]_vars

\* C10, its case: nothing was loaded, two requests have been merged, the
\* second of which carried t1 again, and the list is the one claimed t1.
C10_Witness ==
    /\ variant \in {"pc", "sb"}
    /\ loadLog[IF variant = "pc" THEN "transfers" ELSE "db"] = "missing"
    /\ nStream = 2
    /\ Transfers = <<Transfer("t1", TRUE)>>

-----------------------------------------------------------------------------
(* The per-collection server alone, with requests that carry users.        *)

\* A user record with one member.
UserRec(balance) == <<<<"balance", Num(balance)>>>>

\* The request bodies the specification PcSpec draws from: one creates a
\* user, whose file the repository does not have, and one sends a transfer,
\* whose file the repository has.
PcBodies ==
    { [data |-> [users |-> Obj("alice" :> UserRec(1))]],
      [data |-> [transfers |-> Arr(<<Transfer("t2", FALSE)>>)]] }

PcInit == Init /\ variant = "pc"

PcNext ==
    \/ NextPC(PcBodies)
    \/ \E path \in Paths : ExternalWrite(path)

PcSpec == PcInit /\ [][PcNext]_vars

\* The users in memory.
Users ==
    IF variant = "pc" THEN collections.users.data.obj ELSE memoryDb.users.obj

\* C11: no step of the server (ingest, completion of the load sequence,
\* flush cycle, conflict handling) removes a username from the users
\* collection.
C11_UsersNeverDeleted ==
    [][\A u \in DOMAIN Users : u \in DOMAIN Users']_vars

-----------------------------------------------------------------------------
(* The merges of users, tokens and bots: the load sequence and POST        *)
(* /api/stream of every variant, with request bodies that carry them.      *)

\* Token records as the game client sends them: a whole token, an update
\* that has the scalar members only, one that also has a chart, and one
\* that has nothing but marketCap.
WholeToken ==
    [marketCap |-> Num(1), price |-> Num(1), liquidityDepth |-> Num(1),
     conviction |-> Num(1), quality |-> Num(1),
     holders |-> Arr(<<Num(1)>>), chartData |-> Arr(<<Num(1)>>),
     topTrades |-> Arr(<<Num(1)>>), rektTrades |-> Arr(<<Num(1)>>),
     tradeLog |-> Arr(<<Num(1)>>)]

ScalarUpdate ==
    [marketCap |-> Num(2), price |-> Num(3), liquidityDepth |-> Num(4),
     conviction |-> Num(5), quality |-> Num(6)]

ChartUpdate ==
    [marketCap |-> Num(2), price |-> Num(3), liquidityDepth |-> Num(4),
     conviction |-> Num(5), quality |-> Num(6),
     chartData |-> Arr(<<Num(1), Num(2), Num(3)>>)]

CapUpdate == [marketCap |-> Num(7)]

IngestBodies ==
    { EmptyMap,
      [data |-> EmptyMap],
      [data |-> [users |-> Obj("alice" :> UserRec(1))]],
      [data |-> [users |-> Obj("bob" :> UserRec(2))]],
      [data |-> [users |-> Obj("alice" :> <<<<"balance", Num(1)>>,
                                            <<"level", Num(3)>>>>)]],
      [data |-> [tokens |-> Obj("tok" :> WholeToken)]],
      [data |-> [tokens |-> Obj("tok" :> ScalarUpdate)]],
      [data |-> [tokens |-> Obj("tok" :> ChartUpdate)]],
      [data |-> [tokens |-> Obj("tok" :> CapUpdate)]],
      [data |-> [bots |-> Arr(<<Num(1)>>)]],
      [data |-> [bots |-> Arr(<<Num(2), Num(3)>>)]],
      [data |-> [bots |-> Arr(<<>>)]],
      [data |-> [chat |-> Arr(<<Num(1)>>)]],
      [data |-> [transfers |-> Arr(<<Transfer("t1", FALSE)>>)]] }

IngestNext ==
    \/ \E key \in KeySet : initStorageFound(key)
    \/ \E key \in KeySet : initStorageCorrupt(key)
    \/ \E key \in KeySet : initStorageMissing(key)
    \/ \E key \in KeySet : initStorageError(key)
    \/ initStorageFoundSB
    \/ initStorageMissingSB
    \/ initStorageErrorSB
    \/ initStorageFoundLG
    \/ initStorageMissingLG
    \/ \E id \in 1..(MaxFlights + 1) : initializeStorageListed(1, id)
    \/ initializeStorageNone(1)
    \/ initializeStorageRead(1)
    \/ initializeStorageError(1)
    \/ \E body \in IngestBodies : stream(body)
    \/ \E body \in IngestBodies : streamSB(body)
    \/ \E body \in IngestBodies : streamLG(body)

IngestSpec == Init /\ [][IngestNext]_vars

\* The member `key` of the data of a request, undefined when the request has
\* no data or the data has no such member.
Inbound(body, key) ==
    IF Truthy(Get(body, "data")) THEN Get(body.data, key) ELSE Undefined

\* data.users of a request as a map, empty when the request has none.
SentUsers(body) ==
    IF Truthy(Inbound(body, "users")) THEN Inbound(body, "users").obj ELSE EmptyMap

\* C12: a POST /api/stream stores every username it carries that the users
\* collection does not have yet, with the record that was sent for it, and
\* leaves every user it does not carry as it was; so after any sequence of
\* requests on pairwise disjoint usernames the collection is the union.
C12_UsersUnion ==
    [][\A body \in IngestBodies :
          StreamStep(body) =>
              /\ \A u \in DOMAIN SentUsers(body) \ DOMAIN Users :
                    /\ u \in DOMAIN Users'
                    /\ Users'[u] = SentUsers(body)[u]
              /\ \A u \in DOMAIN Users \ DOMAIN SentUsers(body) :
                    /\ u \in DOMAIN Users'
                    /\ Users'[u] = Users[u]]_vars

\* C12, its case: two requests on disjoint usernames have been merged and
\* both users are there, each with its record.
C12_Witness ==
    /\ variant \in {"pc", "sb"}
    /\ nStream = 2
    /\ DOMAIN Users = {"alice", "bob"}
    /\ Users["alice"] = UserRec(1)
    /\ Users["bob"] = UserRec(2)

\* The tokens in memory, and data.tokens of a request as a map.
Tokens ==
    IF variant = "pc" THEN collections.tokens.data.obj ELSE memoryDb.tokens.obj

SentTokens(body) ==
    IF Truthy(Inbound(body, "tokens")) THEN Inbound(body, "tokens").obj ELSE EmptyMap

\* The tokens a request updates: those it carries that are in memory.
Updated(body) == DOMAIN SentTokens(body) \cap DOMAIN Tokens

\* The heavyweight members of a token.
Heavyweight == TokenHeavy \cup {"tradeLog"}

\* C13: when POST /api/stream updates a token that exists, every
\* heavyweight member (holders, chartData, topTrades, rektTrades, tradeLog)
\* that the inbound record omits keeps its stored value.
C13_OmittedHeavyKept ==
    [][\A body \in IngestBodies :
          StreamStep(body) =>
              \A tid \in Updated(body) :
                  \A h \in Heavyweight \ DOMAIN SentTokens(body)[tid] :
                      /\ tid \in DOMAIN Tokens'
                      /\ Get(Tokens'[tid], h) = Get(Tokens[tid], h)]_vars

\* C14: when POST /api/stream of the per-collection server updates a token
\* that exists, the token's marketCap, price, liquidityDepth, conviction and
\* quality are afterwards those of the inbound record, whatever they were.
C14_ScalarsLastWriteWins ==
    [][\A body \in IngestBodies :
          stream(body) =>
              \A tid \in Updated(body) :
                  \A f \in TokenScalars :
                      /\ tid \in DOMAIN Tokens'
                      /\ Get(Tokens'[tid], f) = Get(SentTokens(body)[tid], f)]_vars

\* C14, its case: the whole token was stored and then updated by a record
\* with other scalars and no heavyweight member.
C14_Witness ==
    /\ variant = "pc"
    /\ "tok" \in DOMAIN Tokens
    /\ \A f \in TokenScalars : Get(Tokens["tok"], f) = ScalarUpdate[f]
    /\ \A h \in TokenHeavy : Get(Tokens["tok"], h) = WholeToken[h]

\* The tokens in memory after POST /api/stream has merged data.tokens of
\* `body` into `tokens`.
tokensMerged(tokens, body) ==
    IF ~Truthy(Inbound(body, "tokens")) THEN tokens
    ELSE IF variant = "pc"
    THEN mergeTokens([data |-> Obj(tokens), dirty |-> FALSE],
                     Inbound(body, "tokens")).data.obj
    ELSE IF variant = "sb"
    THEN mergeTokensSB(Obj(tokens), Inbound(body, "tokens")).obj
    ELSE mergeTokensLG(Obj(tokens), Inbound(body, "tokens")).obj

\* C15: POST /api/stream leaves the tokens as the merge of the request into
\* them, and merging the same request once more into the result leaves the
\* scalar members of every token it carries as they are.
C15_ScalarsIdempotent ==
    [][\A body \in IngestBodies :
          StreamStep(body) =>
              /\ Tokens' = tokensMerged(Tokens, body)
              /\ \A tid \in DOMAIN SentTokens(body) :
                    \A f \in TokenScalars :
                        Get(tokensMerged(Tokens', body)[tid], f) =
                            Get(Tokens'[tid], f)]_vars

\* C15, its case: the whole token was stored and then updated by the record
\* that has a chart; the update can be sent again.
C15_Witness ==
    /\ variant \in {"pc", "sb"}
    /\ "tok" \in DOMAIN Tokens
    /\ Get(Tokens["tok"], "chartData") = ChartUpdate.chartData
    /\ Get(Tokens["tok"], "holders") = WholeToken.holders
    /\ Get(Tokens["tok"], "price") = ChartUpdate.price
    /\ tokensMerged(Tokens, [data |-> [tokens |-> Obj("tok" :> ChartUpdate)]]) = Tokens

\* data.bots of a request is an array that has elements.
BotsSent(body) ==
    /\ Truthy(Inbound(body, "bots"))
    /\ Len(Inbound(body, "bots").arr) > 0

\* C16: POST /api/stream of the per-collection server makes the bots
\* collection the inbound bots when the request carries a non-empty bots
\* array, and leaves the collection and its dirty flag as they are when
\* the request carries no bots or an empty array.
C16_BotsReplacedWhenNonEmpty ==
    [][\A body \in IngestBodies :
          stream(body) =>
              IF BotsSent(body)
              THEN collections'.bots.data = Inbound(body, "bots")
              ELSE /\ collections'.bots.data = collections.bots.data
                   /\ collections'.bots.dirty = collections.bots.dirty]_vars

\* POST /api/stream with this body executes `collections[key].dirty = true`:
\* the flag the merge of the request leaves when it starts from false.
SetsDirty(key, body) ==
    /\ Truthy(Get(body, "data"))
    /\ mergeKey(key, [collections[key] EXCEPT !.dirty = FALSE], body.data).dirty

\* The step changes the value of the collection.
Changes(key) == collections'[key].data # collections[key].data

\* C17 as stated: POST /api/stream sets the dirty flag of a collection if
\* and only if the merge changes the value of the collection.
C17_DirtyIffChanged ==
    [][\A body \in IngestBodies :
          stream(body) =>
              \A key \in KeySet : SetsDirty(key, body) <=> Changes(key)]_vars

\* The users merge of src/server.js: every user sent is stored as
\* { ...(ext || {}), ...inc } and the collection is marked dirty.
mergeUsersAlways(st, inc) ==
    LET users == st.data.obj
    IN  [data |-> Obj([u \in DOMAIN users \cup DOMAIN inc.obj |->
                          IF u \in DOMAIN inc.obj
                          THEN Spread(IF u \in DOMAIN users THEN users[u] ELSE <<>>,
                                      inc.obj[u])
                          ELSE users[u]]),
         dirty |-> st.dirty \/ DOMAIN inc.obj # {}]

\* C17: a POST /api/stream that changes the value of a collection sets its
\* dirty flag, and no request clears a flag; the flag is set exactly when
\* the value changes for transfers only.  A request that carries tokens or
\* bots sets the flag whether or not the value changes, one that carries
\* users sets it when a user sent is new or differs as text from the stored
\* one (src/unnamed/part_002) or always (src/server.js); a request that does
\* not carry the collection leaves value and flag as they are.
C17_ChangedIsDirty ==
    [][\A body \in IngestBodies :
          stream(body) =>
              /\ \A key \in KeySet :
                    /\ Changes(key) => SetsDirty(key, body)
                    /\ collections'[key].dirty =
                          (collections[key].dirty \/ SetsDirty(key, body))
                    /\ ~Truthy(Inbound(body, key)) =>
                          ~Changes(key) /\ ~SetsDirty(key, body)
              /\ SetsDirty("transfers", body) <=> Changes("transfers")
              /\ SetsDirty("tokens", body) <=> DOMAIN SentTokens(body) # {}
              /\ SetsDirty("bots", body) <=> Truthy(Inbound(body, "bots"))
              /\ SetsDirty("users", body) <=>
                    \E u \in DOMAIN SentUsers(body) :
                        userDiffers(Users, SentUsers(body), u)
              /\ LET st == [data |-> collections.users.data, dirty |-> FALSE]
                     always == mergeUsersAlways(st, Obj(SentUsers(body)))
                 IN  /\ always.dirty <=> DOMAIN SentUsers(body) # {}
                     /\ always.data = collections'.users.data]_vars

\* C17, its case: before the load sequence has answered, one request has
\* stored bots and another has stored a token; both collections are dirty.
C17_Witness ==
    /\ variant = "pc"
    /\ loadLog["bots"] = "pending" /\ loadLog["tokens"] = "pending"
    /\ collections.bots.data = Arr(<<Num(2), Num(3)>>) /\ collections.bots.dirty
    /\ "tok" \in DOMAIN Tokens /\ collections.tokens.dirty

\* C18: when the load sequence is answered with a blob that parses, the
\* collection has the stored document as its value, the token of the blob
\* and dirty = false, whatever requests were handled before the answer.
C18_FoundLoadsClean ==
    [][\A key \in KeySet :
          initStorageFound(key) =>
              /\ collections'[key].data = Parse(store[Path(key)].content)
              /\ collections'[key].sha = store[Path(key)].sha
              /\ ~collections'[key].dirty]_vars

\* The PUT answered in this step is the first write of a collection whose
\* load was answered 404: it carries the null token.
FirstWrite(j) ==
    /\ j \in 1..Len(flights)
    /\ saveLoopPutOk(j)
    /\ loadLog[KeyOf(j)] = "missing"
    /\ flights[j].sha = 0

\* C19: when the load of a collection is answered 404, or with a text that
\* does not parse, the collection becomes its empty default with dirty =
\* true, so that the next cycle of saveLoop takes it; after a 404 the token
\* is null, a PUT with the null token is accepted, and the first write
\* creates the blob with the text sent.
C19_MissingOrCorruptStartsEmpty ==
    [][/\ \A key \in KeySet :
            /\ initStorageMissing(key) =>
                  /\ collections'[key].data = EmptyDefault(key)
                  /\ collections'[key].dirty
                  /\ collections'[key].sha = 0
                  /\ \E i \in 1..Len(dirtyKeys') : dirtyKeys'[i] = key
                  /\ PutAccepted(Path(key), 0)
            /\ initStorageCorrupt(key) =>
                  /\ collections'[key].data = EmptyDefault(key)
                  /\ collections'[key].dirty
                  /\ collections'[key].sha = store[Path(key)].sha
                  /\ \E i \in 1..Len(dirtyKeys') : dirtyKeys'[i] = key
       /\ \A j \in 1..MaxFlights :
            FirstWrite(j) =>
                /\ ~BlobExists(Path(KeyOf(j)))
                /\ store'[Path(KeyOf(j))].sha # 0
                /\ store'[Path(KeyOf(j))].content = flights[j].content]_vars

\* C19, its case: users.json was missing and bots.json did not parse; both
\* loads were answered, a cycle of saveLoop has written both collections,
\* and the store holds the two empty defaults.
C19_Witness ==
    /\ variant = "pc"
    /\ loadLog["users"] = "missing" /\ loadLog["bots"] = "corrupt"
    /\ store[Path("users")] =
           [sha |-> 1, content |-> Stringify("users", EmptyDefault("users"))]
    /\ store[Path("bots")] =
           [sha |-> 2, content |-> Stringify("bots", EmptyDefault("bots"))]
    /\ collections.users = [data |-> EmptyDefault("users"), sha |-> 1, dirty |-> FALSE]
    /\ collections.bots = [data |-> EmptyDefault("bots"), sha |-> 2, dirty |-> FALSE]

\* The load of `key` failed with an error that is not 404: the step leaves
\* the collection as it is, and the load is never answered again.
ErrorLeavesAlone(key) ==
    /\ initStorageError(key) =>
          /\ collections'[key] = collections[key]
          /\ loadLog'[key] = "error"
    /\ loadLog[key] = "error" => loadLog'[key] = "error"

\* C20 as stated: when the load of a collection fails with an error that is
\* not 404, the collection stays as it is, the load is never retried, and
\* no write of that collection reaches the store from then on.
C20_ErrorNeverPersisted ==
    [][/\ \A key \in KeySet : ErrorLeavesAlone(key)
       /\ \A j \in 1..Len(flights) :
            saveLoopPutOk(j) => loadLog[KeyOf(j)] # "error"]_vars

\* C20: when the load of a collection fails with an error that is not 404,
\* the collection stays as it is and the load is never retried.  The
\* collection is flushed like any other once a request marks it dirty: its
\* PUT carries the null token for as long as no write succeeded, the store
\* accepts that PUT only when the blob does not exist, and a blob that
\* exists keeps its text while the collection's token is null.
C20_ErrorWritesOnlyNewBlob ==
    [][/\ \A key \in KeySet :
            /\ ErrorLeavesAlone(key)
            /\ (loadLog[key] = "error" /\ collections[key].sha = 0
                    /\ BlobExists(Path(key))) =>
                  /\ store'[Path(key)].content = store[Path(key)].content
                  /\ collections'[key].sha = 0
       /\ \A j \in 1..Len(flights) :
            (saveLoopPutOk(j) /\ loadLog[KeyOf(j)] = "error"
                 /\ flights[j].sha = 0) =>
                /\ ~BlobExists(Path(KeyOf(j)))
                /\ store'[Path(KeyOf(j))].content = flights[j].content]_vars

\* C20, its case: the load of users failed, a request has stored alice, and
\* a cycle of saveLoop has created data/users.json with her.
C20_Witness ==
    /\ variant = "pc"
    /\ loadLog["users"] = "error"
    /\ store[Path("users")] =
           [sha |-> 1,
            content |-> Stringify("users", Obj("alice" :> UserRec(1)))]
    /\ collections.users =
           [data |-> Obj("alice" :> UserRec(1)), sha |-> 1, dirty |-> FALSE]

-----------------------------------------------------------------------------
(* The load sequence of the per-collection server, one key at a time.      *)

\* The GET of `key` is answered in this step, one way or the other.
Loaded(key) ==
    \/ initStorageFound(key)
    \/ initStorageCorrupt(key)
    \/ initStorageMissing(key)
    \/ initStorageError(key)

\* C21: the answer to the GET of one collection, whatever it is, leaves the
\* value, the dirty flag, the token and the pending load of every other
\* collection as they are; and a load that is pending can be answered with
\* what the store holds, whatever the other loads were answered with.
C21_LoadsIndependent ==
    /\ [][\A key \in KeySet :
            Loaded(key) =>
                \A other \in KeySet \ {key} :
                    /\ collections'[other] = collections[other]
                    /\ loadLog'[other] = loadLog[other]]_vars
    /\ [](\A key \in KeySet :
            (variant = "pc" /\ loadLog[key] = "pending") =>
                ENABLED (\/ initStorageFound(key)
                         \/ initStorageCorrupt(key)
                         \/ initStorageMissing(key)))

\* C21, its case: the four loads were answered in the four ways, and the
\* collections that were found hold what the store holds.
C21_Witness ==
    /\ variant = "pc"
    /\ loadLog["users"] = "missing" /\ loadLog["bots"] = "corrupt"
    /\ loadLog["transfers"] = "error" /\ loadLog["tokens"] = "found"
    /\ collections.tokens = [data |-> SeedData("tokens"), sha |-> 1, dirty |-> FALSE]
    /\ collections.transfers = InitCollections.transfers
    /\ collections.users = [data |-> EmptyDefault("users"), sha |-> 0, dirty |-> TRUE]
    /\ collections.bots = [data |-> EmptyDefault("bots"), sha |-> 1, dirty |-> TRUE]

\* The token of a collection, and the steps that give a collection a token:
\* a GET of the load sequence that is answered with the blob, a PUT that is
\* accepted, the GET after a conflict that is answered.
Sha(key) == collections[key].sha

ReadOk(key) == initStorageFound(key) \/ initStorageCorrupt(key)

StoreAnswers(key) ==
    \/ ReadOk(key)
    \/ \E j \in 1..Len(flights) :
           /\ KeyOf(j) = key
           /\ saveLoopPutOk(j) \/ saveLoopRefreshOk(j)

\* C22: in the per-collection server a collection whose load was answered
\* with the blob has a token; every step in which the store answers a read
\* or a write of the collection leaves it with a token; a null token
\* becomes a token only in such a step; and a token never becomes null.
C22_NullTokenNeverStored ==
    /\ [](\A key \in KeySet :
            loadLog[key] \in {"found", "corrupt"} => Sha(key) # 0)
    /\ [][\A key \in KeySet :
            /\ (variant = "pc" /\ StoreAnswers(key)) => Sha(key)' # 0
            /\ (Sha(key) = 0 /\ Sha(key)' # 0) => StoreAnswers(key)
            /\ Sha(key) # 0 => Sha(key)' # 0]_vars

\* C22, its case: users got its token from the PUT that created the blob,
\* bots from the load and then from the GET after a conflict, and
\* transfers, whose load failed, has the null token.
C22_Witness ==
    /\ variant = "pc"
    /\ loadLog["users"] = "missing" /\ Sha("users") = 1
    /\ loadLog["bots"] = "corrupt" /\ Sha("bots") = 2
    /\ lastConflict["bots"] = "refreshed"
    /\ loadLog["transfers"] = "error" /\ Sha("transfers") = 0

-----------------------------------------------------------------------------
(* What the API answers.                                                   *)

\* The value of collection `key` after the merges of a request.
mergedData(body, key) ==
    IF ~Truthy(Get(body, "data")) THEN collections[key].data
    ELSE mergeKey(key, collections[key], body.data).data

\* The data of the answers of the per-collection server: the value of each
\* collection and `chat: []`.
snapshot(users, tokens, bots, transfers) ==
    [users |-> users, tokens |-> tokens, bots |-> bots,
     transfers |-> transfers, chat |-> Arr(<<>>)]

\* What POST /api/stream answers to a request handled now.  pc: success:
\* false without data, else the state after the merges; sb: success: true,
\* sent before anything is looked at; lg, gi: status 400 without data.
streamResponse(body) ==
    IF variant = "pc"
    THEN IF ~Truthy(Get(body, "data")) THEN [success |-> FALSE]
         ELSE [success |-> TRUE,
               data |-> snapshot(mergedData(body, "users"),
                                 mergedData(body, "tokens"),
                                 mergedData(body, "bots"),
                                 mergedData(body, "transfers"))]
    ELSE IF variant = "sb" THEN [success |-> TRUE]
    ELSE IF ~Truthy(Get(body, "data")) THEN [status |-> 400]
    ELSE [success |-> TRUE]

\* A step of the flush routine of the per-collection or of the guarded
\* single-blob server: the timer fires, or the store answers.
FlushStep ==
    \/ saveLoop
    \/ saveToRepo
    \/ \E j \in 1..Len(flights) :
           \/ saveLoopPutOk(j) \/ saveLoopPutConflict(j) \/ saveLoopPutError(j)
           \/ saveLoopRefreshOk(j) \/ saveLoopRefreshError(j)
           \/ saveToRepoPutOk(j) \/ saveToRepoPutConflict(j)
           \/ saveToRepoPutError(j)
           \/ refreshShaOk(j) \/ refreshShaError(j)

\* C23: in the per-collection and in the guarded single-blob server POST
\* /api/stream can be handled in every state of the flush routine; no step
\* of the flush routine, whatever the store answers, changes what a request
\* is answered (the answer is made of `collections` alone, so only the
\* steps that change it are compared); the answer is success: true with
\* the merged state (pc) or success: true alone (sb), and success: false
\* only for a body without data; the step in which a request is handled
\* leaves the state of the flush routine as it is.
C23_IngestDecoupled ==
    /\ [](\A body \in Bodies :
            (variant \in {"pc", "sb"} /\ nStream < MaxStream) =>
                ENABLED (stream(body) \/ streamSB(body)))
    /\ [][(variant \in {"pc", "sb"} /\ collections' # collections
               /\ nStream' = nStream /\ FlushStep) =>
            \A body \in Bodies :
                streamResponse(body)' = streamResponse(body)]_vars
    /\ [][(variant \in {"pc", "sb"} /\ nStream' # nStream) =>
            /\ flights' = flights /\ isSaving' = isSaving
            /\ \E body \in Bodies :
                   LET answer == streamResponse(body)
                   IN  IF variant = "sb" THEN answer = [success |-> TRUE]
                       ELSE /\ answer.success = Truthy(Get(body, "data"))
                            /\ answer.success =>
                                  answer.data =
                                      snapshot(collections'.users.data,
                                               collections'.tokens.data,
                                               collections'.bots.data,
                                               collections'.transfers.data)
                            /\ ~answer.success => collections' = collections]_vars

\* C23, its case: the load of transfers failed, a cycle of saveLoop has the
\* PUT of transfers in flight, and a request has changed the transfers
\* since the text of the PUT was taken.
C23_Witness ==
    /\ variant = "pc"
    /\ loadLog["transfers"] = "error"
    /\ isSaving
    /\ \E j \in 1..Len(flights) :
           /\ flights[j].pc = "put"
           /\ KeyOf(j) = "transfers"
           /\ flights[j].content # Stringify("transfers", collections.transfers.data)

\* What GET /api/load answers to a request handled now: the value of each
\* collection and `chat: []` (pc), or memoryDb as it is (sb, lg, gi).
loadResponse ==
    IF variant = "pc"
    THEN [success |-> TRUE,
          data |-> snapshot(collections.users.data, collections.tokens.data,
                            collections.bots.data, collections.transfers.data)]
    ELSE [success |-> TRUE, data |-> memoryDb]

\* The collections the server keeps in memory, each with its value.
InMemory ==
    IF variant = "pc" THEN [key \in KeySet |-> collections[key].data]
    ELSE [key \in {"users", "tokens", "transfers"} |-> memoryDb[key]]

\* C24: in the per-collection and in the guarded single-blob server GET
\* /api/load answers, in every state, the value each collection has in
\* memory, and chat = [] whatever was ingested before.
C24_LoadReturnsMemory ==
    variant \in {"pc", "sb"} =>
        /\ loadResponse.success
        /\ \A key \in DOMAIN InMemory : loadResponse.data[key] = InMemory[key]
        /\ loadResponse.data.chat = Arr(<<>>)

\* POST /api/stream of the per-collection server is handled in this step.
Ingests == nStream' # nStream /\ \E body \in Bodies : stream(body)

\* C25: the step in which the per-collection server handles POST
\* /api/stream sends nothing to the store (the store and the requests in
\* flight are as before) and leaves every token, the isSaving guard and the
\* load sequence as they are; once the load of a collection has been
\* answered, its token changes only in a step of saveLoop in which the
\* store answers the PUT or the GET of that collection.
C25_StreamTouchesMemoryOnly ==
    [][/\ Ingests =>
            /\ store' = store /\ flights' = flights
            /\ isSaving' = isSaving /\ loadLog' = loadLog
            /\ \A key \in KeySet : Sha(key)' = Sha(key)
       /\ \A key \in KeySet :
            (loadLog[key] # "pending" /\ Sha(key)' # Sha(key)) =>
                \E j \in 1..Len(flights) :
                    /\ KeyOf(j) = key
                    /\ saveLoopPutOk(j) \/ saveLoopRefreshOk(j)]_vars

\* C25, its case: the four loads were answered, tokens and transfers have
\* their tokens, a cycle of saveLoop is running, and two requests were
\* handled, the transfers of one of which wait for the next cycle.
C25_Witness ==
    /\ variant = "pc"
    /\ \A key \in KeySet : loadLog[key] # "pending"
    /\ Sha("tokens") = 1 /\ Sha("transfers") = 1
    /\ isSaving /\ flights # <<>>
    /\ nStream = 2
    /\ collections.transfers.dirty
    /\ \A j \in 1..Len(flights) : "transfers" \notin KeysOfCycle(flights[j])

\* The request has no data, or its data has none of the members users,
\* tokens, bots, transfers.
Unrecognized(body) == \A key \in KeySet : Inbound(body, key) = Undefined

\* C26: in the per-collection, the unguarded single-blob and the Gist
\* server a POST /api/stream whose body has no data, or whose data has
\* none of the members users, tokens, bots, transfers, leaves the value,
\* the dirty flag and the token of every collection as they are.
C26_UnrecognizedIsNoOp ==
    [][\A body \in IngestBodies :
          (Unrecognized(body) /\ (stream(body) \/ streamLG(body))) =>
              /\ collections' = collections
              /\ \A key \in DOMAIN InMemory : InMemory[key]' = InMemory[key]
              /\ isDirty' = isDirty
              /\ fileSha' = fileSha /\ gistId' = gistId]_vars

-----------------------------------------------------------------------------
(* The keys a flush cycle writes.                                          *)

\* The collections that are dirty now, in the order of Object.keys.
DirtyNow == SelectSeq(Keys, LAMBDA k : collections[k].dirty)

\* The store accepts, in this step, a write of the blob of collection k that
\* the server sent.
Written(k) ==
    /\ nExternal' = nExternal
    /\ store'[Path(k)] # store[Path(k)]

\* C27, the start of a cycle: the keys of the cycle are the collections that
\* are dirty when the timer fires, and the PUT of the first one is sent.
CycleStarts ==
    (~isSaving /\ isSaving') =>
        /\ Len(flights') = 1
        /\ flights'[1].dirtyKeys = DirtyNow
        /\ flights'[1].pc = "put" /\ flights'[1].i = 1

\* C27, the course of a cycle: its keys stay what they were at its start,
\* whatever the ingest marks meanwhile; it goes through them in order, one
\* request at a time; and a PUT it has outstanding is that of the key it
\* stands at, with the token the collection had when the PUT was sent.
CycleGoesOn ==
    (isSaving /\ isSaving') =>
        /\ Len(flights) = 1 /\ Len(flights') = 1
        /\ flights'[1].dirtyKeys = flights[1].dirtyKeys
        /\ flights'[1].i \in {flights[1].i, flights[1].i + 1}
        /\ flights'[1].i \in 1..Len(flights[1].dirtyKeys)
        /\ (flights'[1].i # flights[1].i) => flights'[1].pc = "put"

\* C27: a cycle of saveLoop sends PUTs only for the collections that were
\* dirty when it started, one after the other in the order of the keys; the
\* blob of a collection that was clean at the start of the cycle is not
\* written during it, even when the ingest marks the collection meanwhile;
\* and a timer firing that finds no collection dirty sends nothing and
\* leaves isSaving false.
C27_WritesDirtyAtStart ==
    [][variant = "pc" =>
         /\ CycleStarts
         /\ CycleGoesOn
         /\ \A k \in KeySet :
               Written(k) => /\ isSaving /\ Len(flights) = 1
                             /\ flights[1].pc = "put"
                             /\ flights[1].dirtyKeys[flights[1].i] = k
                             /\ store'[Path(k)].content = flights[1].content
         /\ (DirtyNow = <<>> /\ ~isSaving) =>
               /\ ~isSaving' /\ flights' = flights
               /\ \A k \in KeySet : ~Written(k)
               /\ (saveLoop => UNCHANGED vars)]_vars

\* C27, its case: a cycle that started with at least two dirty collections
\* has reached its last key, and a collection that is not among its keys has
\* been marked dirty by the ingest meanwhile.
C27_Witness ==
    /\ variant = "pc"
    /\ isSaving /\ Len(flights) = 1
    /\ Len(flights[1].dirtyKeys) >= 2
    /\ flights[1].i = Len(flights[1].dirtyKeys)
    /\ flights[1].pc = "put"
    /\ \E k \in KeySet :
          /\ k \notin KeysAt(flights[1].dirtyKeys, 1, Len(flights[1].dirtyKeys))
          /\ collections[k].dirty
          /\ loadLog[k] = "found"

-----------------------------------------------------------------------------
(* The guard is released.                                                  *)

\* How far the cycle of activation f has got: two steps for each key, the
\* PUT and the GET that follows a conflict.
Progress(f) ==
    2 * (IF f.fn = "saveLoop" THEN f.i ELSE 1) + (IF f.pc = "get" THEN 1 ELSE 0)

\* The largest value of Progress(f).
ProgressMax(f) ==
    2 * (IF f.fn = "saveLoop" THEN Len(f.dirtyKeys) ELSE 1) + 1

\* Some answer of the store to the request of flights[j], whatever the
\* store holds: a failure is always possible.
Answered(j) ==
    \/ saveLoopPutError(j) \/ saveLoopRefreshError(j)
    \/ saveToRepoPutError(j) \/ refreshShaError(j)

\* C28, state part: while the guard is set the one cycle in flight awaits an
\* answer of the store, which can arrive; and while the guard is not set no
\* cycle is in flight and, if something is dirty, a timer firing starts one.
GuardFollowsCycle ==
    Guarded =>
        /\ isSaving => /\ Len(flights) = 1
                       /\ flights[1].pc \in {"put", "get"}
                       /\ Progress(flights[1]) <= ProgressMax(flights[1])
                       /\ ENABLED Answered(1)
        /\ ~isSaving => /\ flights = <<>>
                        /\ (\E k \in Blobs : Dirty(k)) =>
                               ENABLED ((saveLoop \/ saveToRepo) /\ isSaving')

\* C28: in saveLoop and in the guarded saveToRepo every answer of the store,
\* a success, a conflict, a failed refresh of the token or another error,
\* takes the cycle forward; a cycle has finitely many requests; and the
\* step in which its last request returns sets isSaving to false, so that a
\* later timer firing can start a new cycle.
C28_GuardReleased ==
    /\ []GuardFollowsCycle
    /\ [][(Guarded /\ isSaving /\ flights' # flights) =>
            IF Len(flights') = Len(flights)
            THEN /\ isSaving'
                 /\ Progress(flights'[1]) > Progress(flights[1])
                 /\ ProgressMax(flights'[1]) = ProgressMax(flights[1])
            ELSE /\ flights' = <<>>
                 /\ ~isSaving']_vars

\* C28, its case: the guard is free after cycles of saveLoop in which one
\* collection was written, the PUT of another was answered with a conflict
\* and that collection is still dirty.
C28_Witness ==
    /\ variant = "pc"
    /\ ~isSaving /\ flights = <<>>
    /\ \E k \in KeySet : lastConflict[k] = "conflict" /\ collections[k].dirty
    /\ \E k \in KeySet : /\ loadLog[k] \in {"missing", "corrupt"}
                         /\ ~collections[k].dirty
                         /\ BlobExists(Path(k))

-----------------------------------------------------------------------------
(* The guarded single-blob server and its shutdown.                        *)

ExitInit == Init /\ variant = "sb"

\* The server, the signals that end it and the other writers of the
\* repository, which go on after it.
ExitNext ==
    \/ NextSB(Bodies)
    \/ emergencySave
    \/ ExternalWrite(DB_PATH)

ExitSpec == ExitInit /\ [][ExitNext]_vars

\* C29: in the guarded single-blob server, when process.exit is reached
\* while isDirty is true, emergencySave has sent a write of database.json
\* and the process exits in the step in which the answer to that write, a
\* success or a failure, arrives; also when the signal came while a save
\* started by the timer was in flight.
C29_ExitAfterWrite ==
    [][(variant = "sb" /\ isDirty /\ shutdown # "exited" /\ shutdown' = "exited") =>
          /\ shutdown = "await"
          /\ Len(flights) = 1
          /\ flights' = <<>>]_vars

-----------------------------------------------------------------------------
(* The Gist server creates its Gist.                                       *)

\* The POST /gists requests that are outstanding.
Creates == {j \in 1..Len(flights) : flights[j].pc = "post"}

\* C30: in the Gist server at most one POST /gists is outstanding at any
\* time, a POST /gists is sent only while gistId is null and no other one is
\* outstanding, and a Gist is created only while gistId is null: so at most
\* one Gist is ever created.
C30_OneGistCreated ==
    /\ [](variant = "gi" => Cardinality(Creates) <= 1)
    /\ [][(variant = "gi" /\ Cardinality(Creates') > Cardinality(Creates)) =>
            gistId = 0 /\ Creates = {}]_vars
    /\ [][(variant = "gi" /\ Len(gists') > Len(gists)) => gistId = 0]_vars

====
